---- MODULE Spec2Model ----
(***************************************************************************)
(* Health-Whisperer: the dashboard's aggregation, goal and badge logic,    *)
(* the digital-twin projection, the context retriever and the meal store,  *)
(* the Telegram bot's text handler and /checkin conversation, the pages'   *)
(* retry helper, logging forms and timezone lookup, and the completion     *)
(* call, modelled from the Python sources.                                 *)
(*                                                                         *)
(* Time is counted in whole hours since an epoch (UTC).  A calendar date   *)
(* is a day number; a zone is its offset from UTC in hours.                *)
(***************************************************************************)
EXTENDS Integers, Sequences, FiniteSets, TLC

VARIABLES
    now,          \* the wall clock, hours (UTC)
    prefs,        \* the user's hw_preferences row
    hw_metrics,   \* table hw_metrics: sequence of rows, in insertion order
    hw_meals,     \* table hw_meals: sequence of rows, in insertion order
    hw_badges,    \* table hw_badges: code -> earned_on (one row per (uid, code))
    dash,         \* what the last run of the dashboard page computed
    last_meal,    \* the arguments of the last call of save_meal
    ctx,          \* the last call of the context retriever and its result
    twin,         \* the digital-twin tab: inputs, scores and the two series
    bot,          \* the Telegram bot: the last text message and its handling
    rq,           \* one call of exec_with_retry: attempts, delays and the session
    hw_events,    \* table hw_events: the water_logged events, in insertion order
    log,          \* the logging pages: open water submissions and what was written
    bdg,          \* the last call of evaluate_badges with the failures it met
    gen,          \* the last call of chat_text: the completion calls it made
    tzr,          \* a call of _user_tz / user_timezone
    conv          \* the /checkin conversation of one chat

dashVars == <<now, prefs, hw_metrics, hw_meals, hw_badges, dash>>
vars == <<now, prefs, hw_metrics, hw_meals, hw_badges, dash, last_meal, ctx, twin,
         bot, rq, hw_events, log, bdg, gen, tzr, conv>>

----------------------------------------------------------------------------
(* Bounds of the model *)

MaxRows == 3
StreakDays == 7
MaxWaterMl == 2000
HoursPerDay == 24
LastDay == 2
SlotHours == {2, 21}

\* A value the datastore does not hold (SQL NULL, pandas NaN, Python None).
NaN == 0 - 1

Range(s) == {s[i] : i \in DOMAIN s}

RECURSIVE SetSum(_)
SetSum(S) == IF S = {} THEN 0
             ELSE LET x == CHOOSE y \in S : TRUE IN x + SetSum(S \ {x})

SetMax(S) == CHOOSE x \in S : \A y \in S : y <= x
SetMin(S) == CHOOSE x \in S : \A y \in S : x <= y

RECURSIVE SortedSeq(_)
SortedSeq(S) == IF S = {} THEN <<>>
                ELSE LET m == SetMin(S) IN <<m>> \o SortedSeq(S \ {m})

Tail7(s) == IF Len(s) <= 7 THEN s ELSE SubSeq(s, Len(s) - 6, Len(s))

----------------------------------------------------------------------------
(* Time helpers: pages/05_Dashboard.py, pages/06a_Log_Physical.py *)

DefaultTz == "America/New_York"
KnownZones == {"America/New_York", "Asia/Dhaka", "UTC"}

\* zoneinfo: the zone's offset from UTC (standard time; the modelled span
\* holds no daylight-saving transition).
UtcOffset(tz) == CASE tz = "America/New_York" -> 0 - 5
                   [] tz = "Asia/Dhaka" -> 6
                   [] OTHER -> 0

\* _user_tz without the handler around ZoneInfo(tz)
_user_tz_NoFallback(p) ==
    IF p.tz = "" THEN DefaultTz ELSE p.tz

\* _user_tz: the stored zone, the default when it is missing, empty or
\* unknown to zoneinfo.
_user_tz(p) ==
    LET tz == IF p.tz = "" THEN DefaultTz ELSE p.tz
    IN IF tz \in KnownZones THEN tz ELSE DefaultTz

\* datetime.astimezone(tz).date()
LocalDate(ts, tz) == (ts + UtcOffset(tz)) \div HoursPerDay
\* Series.dt.tz_convert("UTC").dt.date
UtcDate(ts) == ts \div HoursPerDay

_today(p, t) == LocalDate(t, _user_tz(p))

\* _start_end_days: local midnight days_back days ago, and now, both in UTC.
_start_end_days(p, t, days_back) ==
    LET tz == _user_tz(p)
        start_l == (LocalDate(t, tz) - days_back) * HoursPerDay
    IN <<start_l - UtcOffset(tz), t>>

----------------------------------------------------------------------------
(* Writers of hw_metrics and hw_meals *)

MetricRow(ts, source, log_date, steps, water_ml, sleep_minutes) ==
    [ts |-> ts, source |-> source, log_date |-> log_date,
     steps |-> steps, water_ml |-> water_ml, sleep_minutes |-> sleep_minutes,
     mood |-> NaN]

\* PostgREST upsert on (uid, source, log_date): the columns of the payload
\* replace those of the conflicting row, the other columns are kept; with
\* no conflicting row the payload is inserted and the other columns are NULL.
ManualIndex(tbl, d) ==
    {i \in DOMAIN tbl : tbl[i].source = "manual" /\ tbl[i].log_date = d}

UpsertManual(tbl, d, cols) ==
    LET hit == ManualIndex(tbl, d)
        merge(old) == [f \in DOMAIN old |->
                          IF f \in DOMAIN cols THEN cols[f] ELSE old[f]]
    IN IF hit = {}
       THEN Append(tbl, merge(MetricRow(NaN, "manual", d, NaN, NaN, NaN)))
       ELSE [i \in DOMAIN tbl |-> IF i \in hit THEN merge(tbl[i]) ELSE tbl[i]]

(* services/nutrition_llm.py: a total of a parsed meal is a JSON value: a  *)
(* number (held in tenths), a string that reads as a number, another       *)
(* string, null, or a key that is not there.                               *)
JNum(x10) == [t |-> "num", v |-> x10]
JNumStr(x10) == [t |-> "numstr", v |-> x10]
JBadStr == [t |-> "str", v |-> 0]
JNull == [t |-> "null", v |-> 0]
JAbsent == [t |-> "absent", v |-> 0]

\* _num_or_none: the float (in tenths) or None
_num_or_none(x) == IF x.t \in {"num", "numstr"} THEN x.v ELSE NaN

\* Python round(): to the nearest integer, a tie to the even one.
RoundHalfEven(x10) ==
    LET q == x10 \div 10
        r == x10 % 10
    IN IF r < 5 THEN q
       ELSE IF r > 5 THEN q + 1
       ELSE IF q % 2 = 0 THEN q ELSE q + 1

\* (mutant) 0 for None
_to_int_ZeroForNone(x10) == IF x10 = NaN THEN 0 ELSE RoundHalfEven(x10)

\* _to_int: int(round(float(x))), None for None
_to_int(x10) == IF x10 = NaN THEN NaN ELSE RoundHalfEven(x10)

NoTotals == [calories |-> JAbsent, protein_g |-> JAbsent]

\* save_meal: the row inserted into hw_meals.  A key whose value is None is
\* dropped from the payload, so the column is NULL.  The raw text goes to
\* the column "items".
save_meal_row(raw_text, parsed, when_utc, meal_type) ==
    LET totals == parsed.totals
    IN [ts |-> when_utc,
        meal_type |-> meal_type,
        items |-> raw_text,
        calories |-> _to_int(_num_or_none(totals.calories)),
        protein_g |-> _to_int(_num_or_none(totals.protein_g))]

----------------------------------------------------------------------------
(* pages/05_Dashboard.py: loaders *)

InWindow(ts, w) == w[1] <= ts /\ ts < w[2]

\* load_metrics / load_meals: the rows with start <= ts < end
load_metrics(tbl, p, t, days_back) ==
    LET w == _start_end_days(p, t, days_back)
    IN SelectSeq(tbl, LAMBDA r : InWindow(r.ts, w))

load_meals(tbl, p, t, days_back) ==
    LET w == _start_end_days(p, t, days_back)
    IN SelectSeq(tbl, LAMBDA r : InWindow(r.ts, w))

\* pandas max(skipna): the largest value that is there, NaN when none is
MaxSkipNa(S) == IF S \ {NaN} = {} THEN NaN ELSE SetMax(S \ {NaN})

\* pandas sum(skipna, min_count=0) over the rows of a frame: NaN counts as 0
RECURSIVE SumSkipNa(_, _)
SumSkipNa(col, rows) ==
    IF rows = <<>> THEN 0
    ELSE (IF Head(rows)[col] = NaN THEN 0 ELSE Head(rows)[col])
         + SumSkipNa(col, Tail(rows))

\* the grouping key of the trend frame and of goal_hits_by_day:
\* ts.dt.tz_convert("UTC").dt.date
GroupDay(r) == UtcDate(r.ts)

RowsOfDay(df, d) == SelectSeq(df, LAMBDA r : GroupDay(r) = d)
DaysOf(df) == {GroupDay(df[i]) : i \in DOMAIN df}

ColMax(df, d, col) == MaxSkipNa({r[col] : r \in Range(RowsOfDay(df, d))})

\* tab_trend: groupby("date").max() of the metrics, groupby("date").sum() of
\* the meals' calories, outer-merged on "date" and sorted by date.  With no
\* metric row the left frame is pd.DataFrame(), which has no "date" column:
\* merge(on="date") raises KeyError.
DailyRow(metrics_df, meals_df, d) ==
    [date |-> d,
     steps |-> ColMax(metrics_df, d, "steps"),
     water_ml |-> ColMax(metrics_df, d, "water_ml"),
     sleep_minutes |-> ColMax(metrics_df, d, "sleep_minutes"),
     calories |-> IF d \in DaysOf(meals_df)
                  THEN SumSkipNa("calories", RowsOfDay(meals_df, d))
                  ELSE NaN]

DailyRaises(metrics_df, meals_df) == metrics_df = <<>> /\ meals_df # <<>>

DailyFrame(metrics_df, meals_df) ==
    LET days == SortedSeq(DaysOf(metrics_df) \cup DaysOf(meals_df))
    IN [i \in DOMAIN days |-> DailyRow(metrics_df, meals_df, days[i])]

----------------------------------------------------------------------------
(* pages/05_Dashboard.py: goals, streak and badges *)

DefaultStepGoal == 8000
DefaultWaterGoal == 2000
DefaultSleepGoal == 420

\* int(prefs.get(key) or default): None and 0 give the default
GoalOr(v, default) == IF v = NaN \/ v = 0 THEN default ELSE v

\* a comparison with NaN is False
Ge(v, goal) == v # NaN /\ v >= goal

\* goal_hits_by_day: one row per day of the metrics frame, ascending by day
HitRow(metrics_df, p, d) ==
    LET steps == ColMax(metrics_df, d, "steps")
        water == ColMax(metrics_df, d, "water_ml")
        sleep == ColMax(metrics_df, d, "sleep_minutes")
        steps_hit == Ge(steps, GoalOr(p.daily_step_goal, DefaultStepGoal))
        water_hit == Ge(water, GoalOr(p.daily_water_ml, DefaultWaterGoal))
        sleep_hit == Ge(sleep, GoalOr(p.sleep_goal_min, DefaultSleepGoal))
    IN [day |-> d, steps |-> steps, water_ml |-> water, sleep_minutes |-> sleep,
        steps_hit |-> steps_hit, water_hit |-> water_hit, sleep_hit |-> sleep_hit,
        any_hit |-> steps_hit \/ water_hit \/ sleep_hit]

goal_hits_by_day(metrics_df, p) ==
    LET days == SortedSeq(DaysOf(metrics_df))
    IN [i \in DOMAIN days |-> HitRow(metrics_df, p, days[i])]

\* (mutant) every hit of the window counted, not the trailing run
current_streak_AllHits(hit_series) ==
    Cardinality({i \in DOMAIN hit_series : hit_series[i]})

\* current_streak: count the trailing run of True
RECURSIVE current_streak(_)
current_streak(hit_series) ==
    IF hit_series = <<>> THEN 0
    ELSE IF hit_series[Len(hit_series)]
         THEN 1 + current_streak(SubSeq(hit_series, 1, Len(hit_series) - 1))
         ELSE 0

Column(frame, col) == [i \in DOMAIN frame |-> frame[i][col]]
CountTrue(series) == Cardinality({i \in DOMAIN series : series[i]})
LastRow(frame) == frame[Len(frame)]

\* BADGE_RULES
WaterBadgeDays == 7
SleepBadgeDays == 5
TenThousand == 10000

\* (mutant) six hits of the last seven days are enough
RuleWater7d_SixOfSeven(hits) ==
    CountTrue(Tail7(Column(hits, "water_hit"))) >= WaterBadgeDays - 1

RuleWater7d(hits) ==
    CountTrue(Tail7(Column(hits, "water_hit"))) >= WaterBadgeDays
RuleSteps10k(hits) ==
    Ge(LastRow(hits).steps, TenThousand) \/ LastRow(hits).steps_hit
RuleSleep7x(hits) ==
    CountTrue(Tail7(Column(hits, "sleep_hit"))) >= SleepBadgeDays

BadgeCodes == <<"WATER_7D", "STEPS_10K", "SLEEP_7x">>

RuleOf(code, hits) ==
    CASE code = "WATER_7D" -> RuleWater7d(hits)
      [] code = "STEPS_10K" -> RuleSteps10k(hits)
      [] OTHER -> RuleSleep7x(hits)

\* evaluate_badges: the codes whose rule holds, in the order of BADGE_RULES
Earned(hits) ==
    SelectSeq(BadgeCodes, LAMBDA c : hits # <<>> /\ RuleOf(c, hits))

\* ... each upserted on (uid, code) with earned_on = today's UTC date
UpsertBadges(tbl, earned, t) ==
    [c \in DOMAIN tbl \cup Range(earned) |->
        IF c \in Range(earned) THEN UtcDate(t) ELSE tbl[c]]

----------------------------------------------------------------------------
(* CPython float is IEEE-754 binary64.  A float is (-1)^neg * m * 2^e with  *)
(* m a natural number of exactly MantBits bits, held as a sequence of limbs  *)
(* (least significant first); zero has no limbs.                            *)
LimbBits == 15
LimbBase == 2^LimbBits
MantBits == 53

RECURSIVE BTrim(_)
BTrim(a) == IF a = <<>> THEN a
            ELSE IF a[Len(a)] = 0 THEN BTrim(SubSeq(a, 1, Len(a) - 1)) ELSE a

Limb(a, i) == IF i <= Len(a) THEN a[i] ELSE 0

RECURSIVE BFromNat(_)
BFromNat(n) == IF n = 0 THEN <<>>
               ELSE <<n % LimbBase>> \o BFromNat(n \div LimbBase)

RECURSIVE BAddC(_, _, _, _)
BAddC(a, b, i, c) ==
    IF i > Len(a) /\ i > Len(b) THEN (IF c = 0 THEN <<>> ELSE <<c>>)
    ELSE <<(Limb(a, i) + Limb(b, i) + c) % LimbBase>>
         \o BAddC(a, b, i + 1, (Limb(a, i) + Limb(b, i) + c) \div LimbBase)
BAdd(a, b) == BAddC(a, b, 1, 0)

\* a - b, for a >= b
RECURSIVE BSubC(_, _, _, _)
BSubC(a, b, i, br) ==
    IF i > Len(a) THEN <<>>
    ELSE IF Limb(a, i) - Limb(b, i) - br < 0
         THEN <<Limb(a, i) - Limb(b, i) - br + LimbBase>>
              \o BSubC(a, b, i + 1, 1)
         ELSE <<Limb(a, i) - Limb(b, i) - br>> \o BSubC(a, b, i + 1, 0)
BSub(a, b) == BTrim(BSubC(a, b, 1, 0))

RECURSIVE BCmpAt(_, _, _)
BCmpAt(a, b, i) == IF i = 0 THEN 0
                   ELSE IF a[i] > b[i] THEN 1
                   ELSE IF a[i] < b[i] THEN 0 - 1
                   ELSE BCmpAt(a, b, i - 1)
BCmp(a, b) == IF Len(a) > Len(b) THEN 1
              ELSE IF Len(a) < Len(b) THEN 0 - 1
              ELSE BCmpAt(a, b, Len(a))

\* a * k, for a limb-sized k
RECURSIVE BMulSmallC(_, _, _, _)
BMulSmallC(a, k, i, c) ==
    IF i > Len(a) THEN (IF c = 0 THEN <<>> ELSE <<c>>)
    ELSE <<(a[i] * k + c) % LimbBase>>
         \o BMulSmallC(a, k, i + 1, (a[i] * k + c) \div LimbBase)
BMulSmall(a, k) == IF k = 0 THEN <<>> ELSE BMulSmallC(a, k, 1, 0)

BShlLimbs(a, n) == IF a = <<>> THEN a ELSE [i \in 1..n |-> 0] \o a

RECURSIVE BMulAt(_, _, _)
BMulAt(a, b, i) ==
    IF i > Len(b) THEN <<>>
    ELSE BAdd(BShlLimbs(BMulSmall(a, b[i]), i - 1), BMulAt(a, b, i + 1))
BMul(a, b) == BMulAt(a, b, 1)

\* quotient and remainder of a by a limb-sized d
RECURSIVE BDivSmallAt(_, _, _, _, _)
BDivSmallAt(a, d, i, r, q) ==
    IF i = 0 THEN [q |-> BTrim(q), r |-> r]
    ELSE BDivSmallAt(a, d, i - 1, (r * LimbBase + a[i]) % d,
                     <<(r * LimbBase + a[i]) \div d>> \o q)
BDivSmall(a, d) == BDivSmallAt(a, d, Len(a), 0, <<>>)

BShl(a, n) == BShlLimbs(BMulSmall(a, 2^(n % LimbBits)), n \div LimbBits)
BShr(a, n) ==
    IF n \div LimbBits >= Len(a) THEN <<>>
    ELSE BDivSmall(SubSeq(a, n \div LimbBits + 1, Len(a)),
                   2^(n % LimbBits)).q

\* does a have a 1 among its n lowest bits
BLowBits(a, n) ==
    \/ \E i \in 1..(n \div LimbBits) : Limb(a, i) # 0
    \/ Limb(a, n \div LimbBits + 1) % 2^(n % LimbBits) # 0

RECURSIVE NatBits(_)
NatBits(n) == IF n = 0 THEN 0 ELSE 1 + NatBits(n \div 2)
BBitLen(a) == IF a = <<>> THEN 0
              ELSE LimbBits * (Len(a) - 1) + NatBits(a[Len(a)])

FZero == [neg |-> FALSE, m |-> <<>>, e |-> 0]

\* float("nan"): every operation on it gives it, every comparison is False
FNaN == [neg |-> FALSE, m |-> <<>>, e |-> 1]

\* 2^(MantBits - 1) and 2^MantBits, as limbs
TopLimb == (MantBits - 1) \div LimbBits + 1
MantMin == [i \in 1..TopLimb |->
               IF i = TopLimb THEN 2^((MantBits - 1) % LimbBits) ELSE 0]

\* the float nearest to (-1)^neg * (M + s) * 2^e, 0 <= s < 1 and s > 0 iff
\* sticky; a tie goes to the even mantissa.  M is brought to MantBits + 2
\* bits, the two lowest of which and the bits shifted out decide.
FRoundUp(neg, e, m1) ==
    IF m1[Len(m1)] >= 2 * MantMin[TopLimb]
    THEN [neg |-> neg, m |-> MantMin, e |-> e + 3]
    ELSE [neg |-> neg, m |-> m1, e |-> e + 2]

FRoundM(neg, e, m0, low, st) ==
    FRoundUp(neg, e,
             IF low = 3 \/ (low = 2 /\ (st \/ m0[1] % 2 = 1))
             THEN BAdd(m0, <<1>>) ELSE m0)

FRoundQ(neg, e, q, st) == FRoundM(neg, e, BShr(q, 2), q[1] % 4, st)

FRoundSh(neg, M, e, sticky, sh) ==
    FRoundQ(neg, e + sh,
            IF sh > 0 THEN BShr(M, sh) ELSE BShl(M, 0 - sh),
            sticky \/ (sh > 0 /\ BLowBits(M, sh)))

FRound(neg, M, e, sticky) ==
    IF M = <<>> THEN FZero
    ELSE FRoundSh(neg, M, e, sticky, BBitLen(M) - (MantBits + 2))

FromInt(n) == FRound(n < 0, BFromNat(IF n < 0 THEN 0 - n ELSE n), 0, FALSE)

FNeg(x) == IF x.m = <<>> THEN x ELSE [x EXCEPT !.neg = ~x.neg]

FMul(x, y) ==
    IF x = FNaN \/ y = FNaN THEN FNaN
    ELSE IF x.m = <<>> \/ y.m = <<>> THEN FZero
    ELSE FRound(x.neg # y.neg, BMul(x.m, y.m), x.e + y.e, FALSE)

\* x / d for a positive integer d below LimbBase
FDivQR(x, qr) == FRound(x.neg, qr.q, x.e - 2 * LimbBits, qr.r # 0)
FDivSmall(x, d) ==
    IF x.m = <<>> THEN x
    ELSE FDivQR(x, BDivSmall(BShl(x.m, 2 * LimbBits), d))

\* x + y for aligned magnitudes Mx and My at the exponent e
FAddAligned(x, y, e, Mx, My, c) ==
    IF x.neg # y.neg /\ c = 0 THEN FZero
    ELSE FRound(IF x.neg = y.neg \/ c > 0 THEN x.neg ELSE y.neg,
                IF x.neg = y.neg THEN BAdd(Mx, My)
                ELSE IF c > 0 THEN BSub(Mx, My)
                ELSE BSub(My, Mx),
                e, FALSE)

FAddMags(x, y, e, Mx, My) == FAddAligned(x, y, e, Mx, My, BCmp(Mx, My))

FAddAt(x, y, e) == FAddMags(x, y, e, BShl(x.m, x.e - e), BShl(y.m, y.e - e))

FAdd(x, y) ==
    IF x = FNaN \/ y = FNaN THEN FNaN
    ELSE IF x.m = <<>> THEN y
    ELSE IF y.m = <<>> THEN x
    ELSE FAddAt(x, y, IF x.e < y.e THEN x.e ELSE y.e)

FSub(x, y) == FAdd(x, FNeg(y))

FSign(x) == IF x.m = <<>> THEN 0 ELSE IF x.neg THEN 0 - 1 ELSE 1

\* -1, 0, 1 as x <, =, > y
FCmpMag(x, y) == IF x.e # y.e THEN (IF x.e > y.e THEN 1 ELSE 0 - 1)
                 ELSE BCmp(x.m, y.m)
FCmp(x, y) ==
    IF FSign(x) # FSign(y) THEN (IF FSign(x) > FSign(y) THEN 1 ELSE 0 - 1)
    ELSE IF FSign(x) = 0 THEN 0
    ELSE FSign(x) * FCmpMag(x, y)

FLt(x, y) == x # FNaN /\ y # FNaN /\ FCmp(x, y) < 0
FLe(x, y) == x # FNaN /\ y # FNaN /\ FCmp(x, y) <= 0
FGt(x, y) == x # FNaN /\ y # FNaN /\ FCmp(x, y) > 0
FGe(x, y) == x # FNaN /\ y # FNaN /\ FCmp(x, y) >= 0

\* Python max(a, b) and min(a, b): the first argument unless the second is
\* strictly larger (smaller)
FMax(a, b) == IF FGt(b, a) THEN b ELSE a
FMin(a, b) == IF FLt(b, a) THEN b ELSE a

\* the float literal n/d (d a power of ten)
FromDec(n, d) == FDivSmall(FromInt(n), d)

\* Python round(x, 1): the decimal with one digit nearest to x, a tie to the
\* even digit, then the float nearest to that decimal.  q2 is 2 * 10 * |x|
\* rounded down and st says whether anything was dropped.
PyRoundQ(neg, q, half, st) ==
    FDivSmall(FRound(neg,
                     IF half /\ (st \/ Limb(q, 1) % 2 = 1)
                     THEN BAdd(q, <<1>>) ELSE q,
                     0, FALSE),
              10)

PyRoundQ2(neg, q2, st) == PyRoundQ(neg, BShr(q2, 1), Limb(q2, 1) % 2 = 1, st)

PyRoundN(neg, N, s) == PyRoundQ2(neg, BShr(N, s - 1), BLowBits(N, s - 1))

PyRound1(x) ==
    IF x.m = <<>> \/ x.e >= 0 THEN x
    ELSE PyRoundN(x.neg, BMulSmall(x.m, 10), 0 - x.e)

----------------------------------------------------------------------------
(* pages/05_Dashboard.py, tab_twin: the digital twin *)

\* x or default: None and 0 give the default
ValueOr(v, default) == IF v = NaN \/ v = 0 THEN default ELSE v

RECURSIVE SeqSum(_)
SeqSum(s) == IF s = <<>> THEN 0 ELSE Head(s) + SeqSum(Tail(s))

\* Series.mean(): NaN entries are skipped; the mean of whole numbers is their
\* sum divided by their count, in float arithmetic; NaN when none is left
Mean(present) ==
    IF present = <<>> THEN FNaN
    ELSE FDivSmall(FromInt(SeqSum(present)), Len(present))

\* float(daily.mean()) if not daily.empty else default; daily has one entry
\* for every day of the frame, NaN on a day that has no value of the column
MeanOr(daily, default) ==
    IF daily = <<>> THEN FromInt(default)
    ELSE Mean(SelectSeq(daily, LAMBDA v : v # NaN))

\* activity_factor: the first key of the map that the lower-cased level
\* contains; 1.2 for no level and for a level that contains no key
activity_factor(level) ==
    CASE level \in {"Sedentary", "sedentary"} -> FromDec(12, 10)
      [] level \in {"Lightly active", "lightly active"} -> FromDec(1375, 1000)
      [] level \in {"Moderately active", "moderately active"} -> FromDec(155, 100)
      [] level \in {"Very active", "very active"} -> FromDec(1725, 1000)
      [] level \in {"Athlete", "athlete"} -> FromDec(19, 10)
      [] OTHER -> FromDec(12, 10)

\* the gender term of the BMR: gender.lower().startswith("m") / ("f")
GenderTerm(gender) ==
    CASE gender \in {"male", "Male", "m", "M"} -> 5
      [] gender \in {"female", "Female", "f", "F"} -> 0 - 161
      [] OTHER -> 0 - 78

estimate_tdee(profile, steps_avg, sleep_avg, water_avg) ==
    LET age == ValueOr(profile.age, 30)
        h == FromInt(ValueOr(profile.height_cm, 170))
        w == FromInt(ValueOr(profile.weight_kg, 75))
        bmr == FAdd(FSub(FAdd(FMul(FromInt(10), w), FMul(FromDec(625, 100), h)),
                         FromInt(5 * age)),
                    FromInt(GenderTerm(profile.gender)))
        af == activity_factor(profile.activity_level)
        steps_bonus ==
            FMul(FromInt(80),
                 FMax(FZero, FDivSmall(FSub(steps_avg, FromInt(6000)), 2000)))
        sleep_pen == IF FLt(sleep_avg, FromInt(360)) THEN FromInt(0 - 100)
                     ELSE IF FLt(sleep_avg, FromInt(420)) THEN FromInt(0 - 50)
                     ELSE FZero
        water_pen == IF FLt(water_avg, FromInt(1000)) THEN FromInt(0 - 40)
                     ELSE FZero
    IN FAdd(FAdd(FAdd(FMul(bmr, af), steps_bonus), sleep_pen), water_pen)

\* (mutant) stress counted like mood: the higher the better
wellbeing_score_StressUp(mood, stress, anxiety, focus) ==
    LET mood_n == FDivSmall(FSub(mood, FromInt(1)), 4)
        focus_n == FDivSmall(FSub(focus, FromInt(1)), 4)
        stress_n == FDivSmall(FSub(stress, FromInt(1)), 4)
        anxiety_n == FSub(FromInt(1), FDivSmall(FSub(anxiety, FromInt(1)), 4))
        raw == FAdd(FAdd(FAdd(FMul(FromDec(30, 100), mood_n),
                              FMul(FromDec(30, 100), focus_n)),
                         FMul(FromDec(20, 100), stress_n)),
                    FMul(FromDec(20, 100), anxiety_n))
    IN PyRound1(FMul(FromInt(100), raw))

wellbeing_score(mood, stress, anxiety, focus) ==
    LET mood_n == FDivSmall(FSub(mood, FromInt(1)), 4)
        focus_n == FDivSmall(FSub(focus, FromInt(1)), 4)
        stress_n == FSub(FromInt(1), FDivSmall(FSub(stress, FromInt(1)), 4))
        anxiety_n == FSub(FromInt(1), FDivSmall(FSub(anxiety, FromInt(1)), 4))
        raw == FAdd(FAdd(FAdd(FMul(FromDec(30, 100), mood_n),
                              FMul(FromDec(30, 100), focus_n)),
                         FMul(FromDec(20, 100), stress_n)),
                    FMul(FromDec(20, 100), anxiety_n))
    IN PyRound1(FMul(FromInt(100), raw))

\* the product of the five factors, before it is clamped
AdherenceTerm(mood, stress, anxiety, focus, sleep_avg) ==
    LET t1 == FMul(FromInt(1), IF FGe(mood, FromDec(35, 10))
                               THEN FromDec(102, 100) ELSE FromDec(98, 100))
        t2 == FMul(t1, IF FGe(focus, FromDec(35, 10))
                       THEN FromDec(102, 100) ELSE FromDec(98, 100))
        t3 == FMul(t2, IF FGe(stress, FromDec(35, 10))
                       THEN FromDec(97, 100) ELSE FromInt(1))
        t4 == FMul(t3, IF FGe(anxiety, FromDec(35, 10))
                       THEN FromDec(97, 100) ELSE FromInt(1))
    IN FMul(t4, IF FLt(sleep_avg, FromInt(360))
                THEN FromDec(97, 100) ELSE FromInt(1))

\* (mutant) the product returned as it is
adherence_multiplier_NoClamp(mood, stress, anxiety, focus, sleep_avg) ==
    AdherenceTerm(mood, stress, anxiety, focus, sleep_avg)

adherence_multiplier(mood, stress, anxiety, focus, sleep_avg) ==
    FMax(FromDec(88, 100),
         FMin(FromDec(108, 100),
              AdherenceTerm(mood, stress, anxiety, focus, sleep_avg)))

\* (mutant) no floor under the weight
project_weight_series_step_NoFloor(tdee, intake, delta_kg, w) ==
    [tdee |-> tdee, intake |-> intake, delta_kg |-> delta_kg,
     w |-> FAdd(w, delta_kg)]

\* (mutant) the daily change taken off the weight
project_weight_series_step_Minus(tdee, intake, delta_kg, w) ==
    [tdee |-> tdee, intake |-> intake, delta_kg |-> delta_kg,
     w |-> FMax(FromInt(35), FSub(w, delta_kg))]

\* w = max(35.0, w + delta_kg): the locals of the turn and the new w
project_weight_series_step(tdee, intake, delta_kg, w) ==
    [tdee |-> tdee, intake |-> intake, delta_kg |-> delta_kg,
     w |-> FMax(FromInt(35), FAdd(w, delta_kg))]

\* delta_kg = ((intake - tdee) / 7700.0) * adherence
project_weight_series_delta(tdee, intake, adherence, w) ==
    project_weight_series_step(
        tdee, intake,
        FMul(FDivSmall(FSub(intake, tdee), 7700), adherence), w)

\* project_weight_series, one turn of its loop
project_weight_series_day(profile, kcal_intake, steps_avg, sleep_avg, water_avg, delta_steps, delta_sleep, delta_water, delta_intake, adherence, w) ==
    project_weight_series_delta(
        estimate_tdee(profile,
                      FAdd(steps_avg, FromInt(delta_steps)),
                      FAdd(sleep_avg, FromInt(delta_sleep)),
                      FAdd(water_avg, FromInt(delta_water))),
        FAdd(kcal_intake, FromInt(delta_intake)),
        adherence, w)

----------------------------------------------------------------------------
(* services/memory.py: retrieve_health_context *)

\* the sort key of a candidate: (similarity or 0.0, ts or created_at or "");
\* a missing field is NaN here, and "" sorts below every timestamp
KeySim(r) == IF r.similarity = NaN THEN 0 ELSE r.similarity
KeyTs(r) == IF r.ts # NaN THEN r.ts ELSE r.created_at
KeyGt(a, b) == \/ KeySim(a) > KeySim(b)
               \/ KeySim(a) = KeySim(b) /\ KeyTs(a) > KeyTs(b)

RemoveAt(s, i) == SubSeq(s, 1, i - 1) \o SubSeq(s, i + 1, Len(s))

\* (mutant) sorted(..., key=key) without reverse: the smallest key first
RECURSIVE SortedReverse_Ascending(_)
SortedReverse_Ascending(s) ==
    IF s = <<>> THEN <<>>
    ELSE LET i == SetMin({j \in DOMAIN s :
                             \A h \in DOMAIN s : ~KeyGt(s[j], s[h])})
         IN <<s[i]>> \o SortedReverse_Ascending(RemoveAt(s, i))

\* sorted(..., key=key, reverse=True): the largest key first; the sort is
\* stable, so candidates with equal keys keep their order
RECURSIVE SortedReverse(_)
SortedReverse(s) ==
    IF s = <<>> THEN <<>>
    ELSE LET i == SetMin({j \in DOMAIN s :
                             \A h \in DOMAIN s : ~KeyGt(s[h], s[j])})
         IN <<s[i]>> \o SortedReverse(RemoveAt(s, i))

FirstK(s, k) == SubSeq(s, 1, IF Len(s) < k THEN Len(s) ELSE k)

retrieve_health_context(A, B, C, k) == FirstK(SortedReverse(A \o B \o C), k)

\* hw_chat_history ... .order("ts", desc=True).limit(k): the k latest rows
MostRecent(store, k) == FirstK(SortedReverse(store), k)

\* retrieve_context: the rows of the similarity search when it returns any,
\* else the k latest rows of the chat history
retrieve_context(data, store, k) ==
    IF data # <<>> THEN data ELSE MostRecent(store, k)

\* A text is the sequence of its characters.
IsSpace(c) == c \in {" ", "\n", "\t", "\r"}

\* str.strip()
RECURSIVE LStrip(_)
LStrip(s) == IF s # <<>> /\ IsSpace(Head(s)) THEN LStrip(Tail(s)) ELSE s
RECURSIVE RStrip(_)
RStrip(s) == IF s # <<>> /\ IsSpace(s[Len(s)])
             THEN RStrip(SubSeq(s, 1, Len(s) - 1)) ELSE s
Strip(s) == LStrip(RStrip(s))

\* "\n".join(lines)
RECURSIVE JoinLines(_)
JoinLines(lines) ==
    IF lines = <<>> THEN <<>>
    ELSE IF Len(lines) = 1 THEN lines[1]
    ELSE lines[1] \o <<"\n">> \o JoinLines(Tail(lines))

\* [f"- {r.get('text','')}" for r in recents if r.get("text")]
RECURSIVE NoteLines(_)
NoteLines(recents) ==
    IF recents = <<>> THEN <<>>
    ELSE IF Head(recents).text = <<>> THEN NoteLines(Tail(recents))
    ELSE <<(<<"-", " ">> \o Head(recents).text)>> \o NoteLines(Tail(recents))

SummaryHeader ==
    <<"L", "o", "n", "g", "-", "t", "e", "r", "m", " ", "s", "u", "m", "m", "a", "r", "y", ":", "\n">>
NotesHeader ==
    <<"\n", "\n", "R", "e", "c", "e", "n", "t", " ", "n", "o", "t", "e", "s", ":", "\n">>

\* f"Long-term summary:\n{summ}\n\nRecent notes:\n{recent_text}".strip()
personal_context_text(summ, recents) ==
    Strip(SummaryHeader \o summ \o NotesHeader \o JoinLines(NoteLines(recents)))

\* a summary lookup in try/except: "" when the table is down
SummaryFrom(name, down, summary) == IF name \in down THEN <<>> ELSE summary

\* update_user_summary under the try of step 3: the summary the model wrote,
\* embedded and upserted; "" when there is no chat row, when the model
\* returns nothing and when any of its calls raises
update_user_summary(down, store, llm) ==
    IF store = <<>> \/ llm = <<>> THEN <<>>
    ELSE IF {"hw_chat_history", "chat_text", "embed_text",
             "hw_user_summaries"} \cap down # {} THEN <<>>
    ELSE llm

\* personal_context, steps 1 to 3: the first summary that is not empty
PersonalSummary(down, s1, s2, built) ==
    IF SummaryFrom("hw_user_summaries", down, s1) # <<>> THEN s1
    ELSE IF SummaryFrom("hw_user_memory", down, s2) # <<>> THEN s2
    ELSE built

\* the outside calls of the retriever, in the order it makes them; a call
\* of a service that is down raises, and nothing in the retriever catches
RaisedIn(calls, down) ==
    LET hit == {i \in DOMAIN calls : calls[i] \in down}
    IN IF hit = {} THEN "" ELSE calls[SetMin(hit)]

HealthCalls ==
    <<"embed_text", "match_user_history", "match_journal", "match_meals">>

\* the recency query is made only when the search returned nothing
ContextCalls(data) ==
    IF data # <<>> THEN <<"embed_text", "match_user_history">>
    ELSE <<"embed_text", "match_user_history", "hw_chat_history">>

----------------------------------------------------------------------------
(* telegram_bot/bot.py: free-text intents and the generated reply *)

NoBot == [pc |-> "idle", raw |-> <<>>, linked |-> FALSE, down |-> {},
          llm |-> [outcome |-> "", content |-> <<>>], text |-> <<>>,
          intent |-> "", replies |-> <<>>, generations |-> 0, hw_chat |-> <<>>]

Capitals ==
    <<"A", "B", "C", "D", "E", "F", "G", "H", "I", "J", "K", "L", "M",
      "N", "O", "P", "Q", "R", "S", "T", "U", "V", "W", "X", "Y", "Z">>
Alphabet ==
    <<"a", "b", "c", "d", "e", "f", "g", "h", "i", "j", "k", "l", "m",
      "n", "o", "p", "q", "r", "s", "t", "u", "v", "w", "x", "y", "z">>
Digits == {"0", "1", "2", "3", "4", "5", "6", "7", "8", "9"}

\* re.I: a capital letter matches as its small letter
Lower(c) == IF \E i \in DOMAIN Capitals : Capitals[i] = c
            THEN Alphabet[CHOOSE i \in DOMAIN Capitals : Capitals[i] = c]
            ELSE c

\* \w
IsWord(c) == Lower(c) \in Range(Alphabet) \/ c \in Digits \/ c = "_"
IsWordAt(text, i) == i \in DOMAIN text /\ IsWord(text[i])

\* \b before position i
Boundary(text, i) == IsWordAt(text, i - 1) # IsWordAt(text, i)

\* the word w stands at position i of the text
HasAt(text, i, w) ==
    /\ i + Len(w) - 1 <= Len(text)
    /\ \A q \in DOMAIN w : Lower(text[i + q - 1]) = w[q]

\* \s* (least 0) and \s+ (least 1) from position p: where it can end
GapEnds(text, p, least) ==
    {g \in (p + least)..(Len(text) + 1) : \A q \in p..(g - 1) : IsSpace(text[q])}

\* An alternative of a pattern: words with \s* or \s+ between them.
Alt(words, least) == [words |-> words, least |-> least]

\* the positions after a match of the words that starts at position i
RECURSIVE EndsFrom(_, _, _, _)
EndsFrom(text, i, words, least) ==
    IF ~HasAt(text, i, Head(words)) THEN {}
    ELSE IF Len(words) = 1 THEN {i + Len(Head(words))}
    ELSE UNION {EndsFrom(text, g, Tail(words), least) :
                   g \in GapEnds(text, i + Len(Head(words)), least)}

\* pattern.search(text) for a pattern \b(alternatives)\b
Search(alts, text) ==
    \E a \in alts, i \in DOMAIN text :
        /\ Boundary(text, i)
        /\ \E j \in EndsFrom(text, i, a.words, a.least) : Boundary(text, j)

\* \b(steps?|step\s*count)\b
STEP_PAT ==
    {Alt(<<<<"s", "t", "e", "p">>>>, 0),
     Alt(<<<<"s", "t", "e", "p", "s">>>>, 0),
     Alt(<<<<"s", "t", "e", "p">>, <<"c", "o", "u", "n", "t">>>>, 0)}

\* \b(sleep|minutes\s*of\s*sleep)\b
SLEEP_PAT ==
    {Alt(<<<<"s", "l", "e", "e", "p">>>>, 0),
     Alt(<<<<"m", "i", "n", "u", "t", "e", "s">>, <<"o", "f">>, <<"s", "l", "e", "e", "p">>>>, 0)}

\* \b(heart\s*rate|hr)\b
HR_PAT ==
    {Alt(<<<<"h", "e", "a", "r", "t">>, <<"r", "a", "t", "e">>>>, 0),
     Alt(<<<<"h", "r">>>>, 0)}

\* \b(physical\s*health|fitness|how\s*am\s*i\s*physically)\b
PHYS_PAT ==
    {Alt(<<<<"p", "h", "y", "s", "i", "c", "a", "l">>, <<"h", "e", "a", "l", "t", "h">>>>, 0),
     Alt(<<<<"f", "i", "t", "n", "e", "s", "s">>>>, 0),
     Alt(<<<<"h", "o", "w">>, <<"a", "m">>, <<"i">>, <<"p", "h", "y", "s", "i", "c", "a", "l", "l", "y">>>>, 0)}

\* \b(mental\s*health|mood|stress|anxiety|focus|how\s*am\s*i\s*mentally)\b
MENT_PAT ==
    {Alt(<<<<"m", "e", "n", "t", "a", "l">>, <<"h", "e", "a", "l", "t", "h">>>>, 0),
     Alt(<<<<"m", "o", "o", "d">>>>, 0),
     Alt(<<<<"s", "t", "r", "e", "s", "s">>>>, 0),
     Alt(<<<<"a", "n", "x", "i", "e", "t", "y">>>>, 0),
     Alt(<<<<"f", "o", "c", "u", "s">>>>, 0),
     Alt(<<<<"h", "o", "w">>, <<"a", "m">>, <<"i">>, <<"m", "e", "n", "t", "a", "l", "l", "y">>>>, 0)}

\* \b(what\s+did\s+i\s+eat|meals?\s+today|today'?s\s+meals?)\b
MEALS_PAT ==
    {Alt(<<<<"w", "h", "a", "t">>, <<"d", "i", "d">>, <<"i">>, <<"e", "a", "t">>>>, 1),
     Alt(<<<<"m", "e", "a", "l">>, <<"t", "o", "d", "a", "y">>>>, 1),
     Alt(<<<<"m", "e", "a", "l", "s">>, <<"t", "o", "d", "a", "y">>>>, 1),
     Alt(<<<<"t", "o", "d", "a", "y", "'", "s">>, <<"m", "e", "a", "l">>>>, 1),
     Alt(<<<<"t", "o", "d", "a", "y", "'", "s">>, <<"m", "e", "a", "l", "s">>>>, 1),
     Alt(<<<<"t", "o", "d", "a", "y", "s">>, <<"m", "e", "a", "l">>>>, 1),
     Alt(<<<<"t", "o", "d", "a", "y", "s">>, <<"m", "e", "a", "l", "s">>>>, 1)}


\* the quick intents in the order on_text tries them
QuickIntents ==
    <<[name |-> "steps", pat |-> STEP_PAT], [name |-> "sleep", pat |-> SLEEP_PAT],
      [name |-> "hr", pat |-> HR_PAT], [name |-> "physical", pat |-> PHYS_PAT],
      [name |-> "mental", pat |-> MENT_PAT], [name |-> "meals", pat |-> MEALS_PAT]>>

\* the first quick intent whose pattern the text matches, "" when none does
Intent(text) ==
    LET hit == {i \in DOMAIN QuickIntents : Search(QuickIntents[i].pat, text)}
    IN IF hit = {} THEN "" ELSE QuickIntents[SetMin(hit)].name

ImHereForYou ==
    <<"I", "'", "m", " ", "h", "e", "r", "e", " ", "f", "o", "r", " ", "y", "o", "u", ".">>
CouldNotGenerate ==
    <<"I", " ", "c", "o", "u", "l", "d", "n", "'", "t", " ", "g", "e", "n", "e", "r", "a", "t", "e", " ", "a", " ",
      "t", "i", "p", " ", "r", "i", "g", "h", "t", " ", "n", "o", "w", ".", " ",
      "P", "l", "e", "a", "s", "e", " ", "t", "r", "y", " ", "a", "g", "a", "i", "n", " ", "l", "a", "t", "e", "r", ".">>

\* row.get(field): None for a column the row does not carry
Get(row, field) == IF field \in DOMAIN row THEN row[field] ELSE NaN

\* no row: None, read as {}
NoRow == <<>>

\* day_range_utc: the local day of t, as UTC instants
day_range_utc(p, t) ==
    LET start == LocalDate(t, _user_tz(p)) * HoursPerDay - UtcOffset(_user_tz(p))
    IN <<start, start + HoursPerDay>>

\* .order("ts", desc=True).limit(1): the latest of the rows, None when none
LatestOf(rows) ==
    IF rows = <<>> THEN NoRow
    ELSE rows[CHOOSE i \in DOMAIN rows :
                  \A j \in DOMAIN rows : rows[j].ts <= rows[i].ts]

\* get_metrics_window: today's latest row, else the latest of the last 48
\* hours, else None; None as well when the query raises
get_metrics_window(tbl, p, t, down) ==
    IF "hw_metrics" \in down THEN NoRow
    ELSE IF SelectSeq(tbl, LAMBDA r : InWindow(r.ts, day_range_utc(p, t))) # <<>>
    THEN LatestOf(SelectSeq(tbl, LAMBDA r : InWindow(r.ts, day_range_utc(p, t))))
    ELSE LatestOf(SelectSeq(tbl, LAMBDA r : r.ts >= t - 48))

\* get_meals_today, get_meals_recent: [] when the query raises
get_meals_today(tbl, p, t, down) ==
    IF "hw_meals" \in down THEN <<>>
    ELSE SelectSeq(tbl, LAMBDA r : InWindow(r.ts, day_range_utc(p, t)))
get_meals_recent(tbl, t, down) ==
    IF "hw_meals" \in down THEN <<>>
    ELSE SelectSeq(tbl, LAMBDA r : r.ts >= t - 36)

\* get_meals_from_metrics: the meals of the rows that carry meals_json
get_meals_from_metrics(tbl, t, down) ==
    IF "hw_metrics" \in down THEN <<>>
    ELSE SelectSeq(tbl, LAMBDA r : r.ts >= t - 36 /\ Get(r, "meals_json") # NaN)

\* summarize_physical, summarize_mental: the labelled values of the row
Labelled(day, fields) ==
    SelectSeq([i \in DOMAIN fields |-> <<fields[i], Get(day, fields[i])>>],
              LAMBDA lv : lv[2] # NaN \/ lv[1] \in {"steps", "sleep_minutes"})
summarize_physical(day) ==
    IF day = NoRow THEN <<>>
    ELSE Labelled(day, <<"steps", "sleep_minutes", "heart_rate", "pain_level",
                         "energy_level">>)
summarize_mental(day) ==
    IF day = NoRow THEN <<>>
    ELSE Labelled(day, <<"mood", "stress_level", "anxiety_level", "focus_level">>)

\* a reply from the snapshot or the meal records, and a generated reply
Answer(kind, source, shown) == [kind |-> kind, source |-> source, shown |-> shown]
Generated(msg) == [kind |-> "generated", msg |-> msg]

\* the answer to the meals intent: today's meals, else those of the last 36
\* hours, else those of the metric rows, else the fixed sentence
MealsAnswer(today, recent, metrics) ==
    IF today # <<>> THEN Answer("meals", "today", today)
    ELSE IF recent # <<>> THEN Answer("meals", "last 36h", recent)
    ELSE IF metrics # <<>> THEN Answer("meals", "metrics:last 36h", metrics)
    ELSE Answer("no_meals", "", <<>>)

\* the reply to a text that matches a quick intent
QuickAnswer(intent, day, today, recent, metrics) ==
    CASE intent = "steps" -> Answer("steps", "snapshot", <<Get(day, "steps")>>)
      [] intent = "sleep" ->
             Answer("sleep", "snapshot", <<Get(day, "sleep_minutes")>>)
      [] intent = "hr" -> Answer("hr", "snapshot", <<Get(day, "heart_rate")>>)
      [] intent = "physical" ->
             Answer("physical", "snapshot", summarize_physical(day))
      [] intent = "mental" -> Answer("mental", "snapshot", summarize_mental(day))
      [] OTHER -> MealsAnswer(today, recent, metrics)

\* the outcome of the completion call: it raises, or the message content is
\* None, or it is a text
LlmRaises == [outcome |-> "raises", content |-> <<>>]
LlmNone == [outcome |-> "none", content |-> <<>>]
LlmSays(content) == [outcome |-> "text", content |-> content]

\* chat_text: (out.choices[0].message.content or "").strip()
chat_text(llm) == Strip(llm.content)

\* (mutant) the generated text sent as it is, without the fallback
reply_message_NoFallback(llm) ==
    IF llm.outcome = "raises" THEN CouldNotGenerate ELSE Strip(chat_text(llm))

\* msg = reply.strip() if reply else "I'm here for you."; the apology when
\* chat_text raises
reply_message(llm) ==
    IF llm.outcome = "raises" THEN CouldNotGenerate
    ELSE IF chat_text(llm) # <<>> THEN Strip(chat_text(llm))
    ELSE ImHereForYou

\* log_chat: one row more in hw_chat, embedded when the text is short and
\* the embedding call works; nothing when the insert raises
log_chat(hw_chat, role, text, down) ==
    IF "hw_chat" \in down THEN hw_chat
    ELSE Append(hw_chat,
                [role |-> role, text |-> text,
                 embedded |-> text # <<>> /\ Len(text) < 2000
                              /\ "embed_text" \notin down])

\* (mutant) the completion called before the quick intents are tried
on_text_reply_GenerateFirst(b, intent, answer, llm, down) ==
    [b EXCEPT
       !.intent = intent,
       !.generations = 1,
       !.replies = <<IF intent # "" THEN answer
                     ELSE Generated(reply_message(llm))>>,
       !.hw_chat = IF intent # "" THEN b.hw_chat
                   ELSE log_chat(b.hw_chat, "assistant", reply_message(llm),
                                 down)]

\* on_text from the quick intents on: the answer of the first intent that
\* matches, else one call of the completion, its message logged and sent
on_text_reply(b, intent, answer, llm, down) ==
    [b EXCEPT
       !.intent = intent,
       !.generations = IF intent # "" THEN 0 ELSE 1,
       !.replies = <<IF intent # "" THEN answer
                     ELSE Generated(reply_message(llm))>>,
       !.hw_chat = IF intent # "" THEN b.hw_chat
                   ELSE log_chat(b.hw_chat, "assistant", reply_message(llm),
                                 down)]

\* on_text down to the user's message being logged
on_text_logged(b, text, down) ==
    [b EXCEPT !.pc = "done", !.text = text,
              !.hw_chat = log_chat(b.hw_chat, "user", text, down)]

\* on_text: the profile lookup raises (the error handler answers), no
\* linked profile, an empty text, or the message handled
on_text(raw, linked, down, llm, metrics, meals, p, t) ==
    IF "profiles" \in down
    THEN [NoBot EXCEPT !.pc = "raised", !.replies = <<Answer("oops", "", <<>>)>>]
    ELSE IF ~linked
    THEN [NoBot EXCEPT !.pc = "done", !.replies = <<Answer("link", "", <<>>)>>]
    ELSE IF Strip(raw) = <<>> THEN [NoBot EXCEPT !.pc = "done"]
    ELSE on_text_reply(
             on_text_logged(NoBot, Strip(raw), down),
             Intent(Strip(raw)),
             QuickAnswer(Intent(Strip(raw)),
                         get_metrics_window(metrics, p, t, down),
                         get_meals_today(meals, p, t, down),
                         get_meals_recent(meals, t, down),
                         get_meals_from_metrics(metrics, t, down)),
             llm, down)

----------------------------------------------------------------------------
(* pages/*.py: exec_with_retry and on_sign_out.  One execution of the      *)
(* request ends in "ok", in an APIError that says the session expired      *)
(* ("expired"), in another APIError ("api"), in a transient read error     *)
(* ("transient": ReadError, or "10035" in the message) or in any other     *)
(* exception ("other").  Delays are counted in tenths of a second.         *)

Tries == 3
BaseDelay == 4

Outcomes == {"ok", "expired", "api", "transient", "other"}
Pages == {"05_Dashboard", "07_Preferences", "04_Get_Started"}

NoRq == [pc |-> "idle", page |-> "", i |-> 0, outs |-> <<>>, sleeps |-> <<>>,
         session |-> TRUE, signout_ok |-> TRUE, left |-> ""]

\* control leaves exec_with_retry: "returned", "raised" or "stopped"
Leaves(r, how) == [r EXCEPT !.pc = "done", !.left = how]

\* on_sign_out: the dashboard and the start page pop the session in a
\* finally clause, the preferences page after sign_out has returned
on_sign_out(r) ==
    IF r.page = "07_Preferences" /\ ~r.signout_ok THEN r
    ELSE [r EXCEPT !.session = FALSE]

\* the session expired: sign out, then st.switch_page leaves the script,
\* unless sign_out raised
SessionExpired(r) ==
    Leaves(on_sign_out(r), IF r.signout_ok THEN "stopped" ELSE "raised")

\* the loop goes on with the next i, or is left for the statement after it
Continue(r) ==
    [r EXCEPT !.i = r.i + 1, !.pc = IF r.i + 1 < Tries THEN "loop" ELSE "last"]

\* time.sleep(base_delay * (i + 1)), then the next turn of the loop
SleepContinue(r) ==
    Continue([r EXCEPT !.sleeps = Append(r.sleeps, BaseDelay * (r.i + 1))])

\* one turn of the loop of the dashboard's exec_with_retry
exec_with_retry_Dashboard(r, o) ==
    CASE o = "ok" -> Leaves(r, "returned")
      [] o = "expired" -> SessionExpired(r)
      [] o = "transient" -> SleepContinue(r)
      [] OTHER -> Leaves(r, "raised")

\* one turn of the loop of the preferences page's exec_with_retry
exec_with_retry_Preferences(r, o) ==
    CASE o = "ok" -> Leaves(r, "returned")
      [] o = "expired" -> SessionExpired(r)
      [] OTHER -> SleepContinue(r)

\* one turn of the loop of the start page's exec_with_retry
exec_with_retry_GetStarted(r, o) ==
    CASE o = "ok" -> Leaves(r, "returned")
      [] o = "expired" -> SessionExpired(r)
      [] o = "api" -> IF r.i = Tries - 1 THEN Leaves(r, "raised")
                      ELSE Continue(r)
      [] OTHER -> SleepContinue(r)

\* return req.execute() after the loop: no handler around it
exec_with_retry_last(r, o) ==
    Leaves(r, IF o = "ok" THEN "returned" ELSE "raised")

\* one execution of the request and what the code does with its outcome
exec_with_retry(r, o) ==
    IF r.pc = "last" THEN exec_with_retry_last(r, o)
    ELSE CASE r.page = "05_Dashboard" -> exec_with_retry_Dashboard(r, o)
           [] r.page = "07_Preferences" -> exec_with_retry_Preferences(r, o)
           [] OTHER -> exec_with_retry_GetStarted(r, o)

----------------------------------------------------------------------------
(* pages/06a_Log_Physical.py, 06b_Log_Mental.py, 06c_Log_Nutrition.py: the  *)
(* writers of the day's manual row, with the failures of the datastore.    *)
(* Two water forms may be open at once (two tabs of one user).             *)

Sessions == {1, 2}
NoEvents == <<>>
NoWater == [pc |-> "idle", water_amt |-> 0, when |-> NaN, today_d |-> NaN,
            cur |-> NaN]

\* what the pages have written, per log_date: the value of the latest
\* successful write of each field, the instant of the latest write, the
\* sum of the water amounts submitted with success
NoDay == [steps |-> NaN, sleep_minutes |-> NaN, mood |-> NaN, water_ml |-> NaN,
          at |-> NaN, submitted |-> 0]
NoLog == [w |-> [s \in Sessions |-> NoWater], last |-> <<>>, started |-> 0,
          fellback |-> FALSE, partial |-> FALSE]

DayOf(last, d) == IF d \in DOMAIN last THEN last[d] ELSE NoDay
Put(last, d, v) == [x \in DOMAIN last \cup {d} |-> IF x = d THEN v ELSE last[x]]

\* the payload's columns noted as the latest write of day d at instant t
Noted(last, d, cols, t) ==
    Put(last, d, [f \in DOMAIN NoDay |->
                     IF f = "at" THEN t
                     ELSE IF f \in DOMAIN cols THEN cols[f]
                     ELSE DayOf(last, d)[f]])

\* _to_utc_from_local_time: today's local date at the chosen hour, in UTC
_to_utc_from_local_time(local_time, p, t) ==
    _today(p, t) * HoursPerDay + local_time - UtcOffset(_user_tz(p))

\* (mutant) insert into a table without the unique key of the manual row
InsertManual_NoKey(tbl, d, cols) ==
    Append(tbl, [f \in DOMAIN MetricRow(NaN, "manual", d, NaN, NaN, NaN) |->
                    IF f \in DOMAIN cols THEN cols[f]
                    ELSE MetricRow(NaN, "manual", d, NaN, NaN, NaN)[f]])

\* insert(payload): a new row; the unique key (uid, source, log_date) that
\* the upsert names refuses a second manual row of the day (the table is
\* left as it was and the call raises)
InsertManual(tbl, d, cols) ==
    IF ManualIndex(tbl, d) # {} THEN tbl
    ELSE Append(tbl, [f \in DOMAIN MetricRow(NaN, "manual", d, NaN, NaN, NaN) |->
                         IF f \in DOMAIN cols THEN cols[f]
                         ELSE MetricRow(NaN, "manual", d, NaN, NaN, NaN)[f]])

\* try: upsert(payload) except: insert(payload); up is "ok" when the upsert
\* works, "raises" when it raises and the insert is tried
SaveManual(tbl, d, cols, up) ==
    IF up = "ok" THEN UpsertManual(tbl, d, cols) ELSE InsertManual(tbl, d, cols)

\* the save wrote its payload
Saved(tbl, d, up) == up = "ok" \/ ManualIndex(tbl, d) = {}

\* the bookkeeping of one save
LoggedSave(l, tbl, d, cols, up, t) ==
    [l EXCEPT !.last = IF Saved(tbl, d, up) THEN Noted(l.last, d, cols, t)
                       ELSE l.last,
              !.fellback = l.fellback \/ (up # "ok" /\ Saved(tbl, d, up))]

\* the water_logged events of the local day of t, and the sum of their amounts
TodayWaterEvents(events, p, t) ==
    SelectSeq(events, LAMBDA e : InWindow(e.ts, day_range_utc(p, t)))

RECURSIVE TotalMl(_)
TotalMl(events) ==
    IF events = <<>> THEN 0 ELSE Head(events).water_ml + TotalMl(Tail(events))

----------------------------------------------------------------------------
(* pages/05_Dashboard.py: evaluate_badges when rules raise and upserts fail *)

NoBdg == [pc |-> "idle", raising |-> {}, failing |-> {}, hits |-> <<>>,
          earned |-> <<>>, attempted |-> <<>>]

\* (mutant) the loop over the rules without its try: the first rule that
\* raises ends it
evaluate_badges_StopAtRaise(hits, raising) ==
    SelectSeq(BadgeCodes,
              LAMBDA c : /\ hits # <<>>
                         /\ \A j \in DOMAIN BadgeCodes :
                                BadgeCodes[j] \in raising =>
                                    \E i \in 1..(j - 1) : BadgeCodes[i] = c
                         /\ RuleOf(c, hits))

\* evaluate_badges, first loop: the codes whose rule holds; a rule that
\* raises is passed over
evaluate_badges(hits, raising) ==
    SelectSeq(BadgeCodes,
              LAMBDA c : hits # <<>> /\ c \notin raising /\ RuleOf(c, hits))

\* evaluate_badges, second loop: an upsert is tried for every earned code;
\* one that fails is passed over
UpsertBadgesTried(tbl, earned, failing, t) ==
    UpsertBadges(tbl, SelectSeq(earned, LAMBDA c : c \notin failing), t)

----------------------------------------------------------------------------
(* services/llm_openai.py: chat_text and its retry without the options *)

\* the completion call refuses a parameter ("Unsupported parameter")
LlmUnsupported == [outcome |-> "unsupported", content |-> <<>>]

NoGen == [pc |-> "idle", key |-> TRUE, first |-> LlmNone, second |-> LlmNone,
          calls |-> <<>>, left |-> "", value |-> <<>>]

\* the completion answered: a message, its content a text or None
Answered(llm) == llm.outcome \in {"none", "text"}

\* what a call of chat_text made and how it ended
Ended(calls, left, value) == [calls |-> calls, left |-> left, value |-> value]

\* (mutant) the retry made after any error of the first call
chat_text_run_RetryAll(key, first, second) ==
    IF ~key THEN Ended(<<>>, "raised", <<>>)
    ELSE IF Answered(first)
    THEN Ended(<<"options">>, "returned", chat_text(first))
    ELSE IF Answered(second)
    THEN Ended(<<"options", "plain">>, "returned", chat_text(second))
    ELSE Ended(<<"options", "plain">>, "raised", <<>>)

\* chat_text: the client (it raises without an API key), the call with the
\* options, on an unsupported-parameter error the call without them, and
\* the stripped content
chat_text_run(key, first, second) ==
    IF ~key THEN Ended(<<>>, "raised", <<>>)
    ELSE IF Answered(first)
    THEN Ended(<<"options">>, "returned", chat_text(first))
    ELSE IF first.outcome # "unsupported"
    THEN Ended(<<"options">>, "raised", <<>>)
    ELSE IF Answered(second)
    THEN Ended(<<"options", "plain">>, "returned", chat_text(second))
    ELSE Ended(<<"options", "plain">>, "raised", <<>>)

----------------------------------------------------------------------------
(* _user_tz / user_timezone: no call in progress *)

NoTzr == [pc |-> "idle", caller |-> "", data |-> [kind |-> "norow", tz |-> ""],
          outs |-> <<>>, zone |-> "", left |-> ""]

----------------------------------------------------------------------------
(* telegram_bot/bot.py: the /checkin conversation.  The state of the       *)
(* conversation is what the last callback returned; ConversationHandler    *)
(* dispatches a text to the MessageHandler registered for that state, a    *)
(* /cancel to the fallback, and hands a text that no handler of the state  *)
(* takes to the next handler of the group, on_text.                        *)

\* ASK_BREAKFAST .. ASK_SLEEP = range(10)
AskStates == <<"ASK_BREAKFAST", "ASK_LUNCH", "ASK_DINNER", "ASK_SNACKS",
               "ASK_MOOD", "ASK_MEAL_QUALITY", "ASK_WORKOUT", "ASK_HR",
               "ASK_STEPS", "ASK_SLEEP">>
ConversationEnd == "END"
\* the Message that reply_text returns, when a callback returns it as state
ReplyMessage == "Message"

\* states= of the ConversationHandler: the states with a MessageHandler
RegisteredStates ==
    {"ASK_BREAKFAST", "ASK_LUNCH", "ASK_DINNER", "ASK_SNACKS", "ASK_MOOD",
     "ASK_MEAL_QUALITY", "ASK_WORKOUT", "ASK_HR", "ASK_STEPS"}

\* the callback of each registered state
StateCallback ==
    [s \in RegisteredStates |->
        CASE s = "ASK_BREAKFAST" -> "ask_lunch"
          [] s = "ASK_LUNCH" -> "ask_dinner"
          [] s = "ASK_DINNER" -> "ask_snacks"
          [] s = "ASK_SNACKS" -> "ask_mood"
          [] s = "ASK_MOOD" -> "ask_meal_quality"
          [] s = "ASK_MEAL_QUALITY" -> "ask_workout"
          [] s = "ASK_WORKOUT" -> "ask_hr"
          [] s = "ASK_HR" -> "ask_steps"
          [] OTHER -> "ask_sleep"]

\* the texts a user answers with: a number, or a word
AnswerTexts == {"420", "none"}

\* int(text.strip()) inside try/except: None for a text that is no number
CheckinInt(text) == IF text = "420" THEN 420 ELSE NaN

\* _parse_items_kcal(text)[1]: 0 for "none", the trailing number of the text
CheckinKcal(text) == IF text = "none" THEN 0 ELSE 420

NoConv == [state |-> ConversationEnd, linked |-> FALSE, data |-> <<>>,
           answered |-> 0, saves |-> 0, passed |-> 0]

\* what a callback stores of the answer, and the state it returns
AskCallback(name, text) ==
    CASE name = "ask_lunch" -> <<CheckinKcal(text), "ASK_LUNCH">>
      [] name = "ask_dinner" -> <<CheckinKcal(text), "ASK_DINNER">>
      [] name = "ask_snacks" -> <<CheckinKcal(text), "ASK_SNACKS">>
      [] name = "ask_mood" -> <<CheckinKcal(text), "ASK_MOOD">>
      [] name = "ask_meal_quality" -> <<CheckinInt(text), "ASK_MEAL_QUALITY">>
      [] name = "ask_workout" -> <<CheckinInt(text), "ASK_WORKOUT">>
      [] name = "ask_hr" -> <<text, "ASK_HR">>
      [] name = "ask_steps" -> <<CheckinInt(text), "ASK_STEPS">>
      [] OTHER -> <<CheckinInt(text), "ASK_SLEEP">>

\* finish_checkin: the sleep answer stored, save_metrics called once; END
\* when it saved, and the Message of the apology when it raised
finish_checkin(c, text, saved) ==
    [c EXCEPT !.data = Append(c.data, CheckinInt(text)),
              !.answered = c.answered + 1,
              !.saves = c.saves + 1,
              !.state = IF saved THEN ConversationEnd ELSE ReplyMessage]

----------------------------------------------------------------------------
(* Idle values of the state that a page does not touch *)

NoMeal == [saved |-> FALSE, raw_text |-> <<>>, totals |-> NoTotals]

NoCtx == [pc |-> "idle", fn |-> "", k |-> 0, down |-> {}, err |-> "",
          A |-> <<>>, B |-> <<>>, C |-> <<>>, store |-> <<>>, out |-> <<>>,
          summ |-> <<>>, upserted |-> <<>>, text |-> <<>>]

NoSeries == [tdee |-> FZero, intake |-> FZero, series |-> <<>>]

NoTwin == [pc |-> "closed"]

----------------------------------------------------------------------------
(* The pages as actions *)

NoBadges == [c \in {} |-> 0]

NoDash == [status |-> "none", metrics_df |-> <<>>, meals_df |-> <<>>,
           daily |-> <<>>, hits |-> <<>>, streak_any |-> 0, earned |-> <<>>]

DaysBackDefault == 30

\* Time passes, to the next hour of the day at which the user acts.
NextSlot(t, slots) ==
    SetMin({u \in (t + 1)..(t + HoursPerDay) : u % HoursPerDay \in slots})

Tick(slots, last) ==
    /\ NextSlot(now, slots) <= last
    /\ now' = NextSlot(now, slots)
    /\ UNCHANGED <<conv, tzr, gen, bdg, log, hw_events, rq, prefs, hw_metrics, hw_meals, hw_badges, dash, last_meal, ctx, twin, bot>>

\* pages/06a_Log_Physical.py, "Save Physical": upsert today's manual row
SavePhysical(steps, sleep_min, cap) ==
    LET payload == [ts |-> now, steps |-> steps, sleep_minutes |-> sleep_min]
        tbl == UpsertManual(hw_metrics, _today(prefs, now), payload)
    IN /\ Len(tbl) + Len(hw_meals) <= cap
       /\ hw_metrics' = tbl
       /\ dash' = NoDash
       /\ UNCHANGED <<conv, tzr, gen, bdg, log, hw_events, rq, now, prefs, hw_meals, hw_badges, last_meal, ctx, twin, bot>>

\* pages/06c_Log_Nutrition.py, "Save Water Log": read today's manual row,
\* add the amount, upsert the row
SaveWaterLog(water_amt, cap) ==
    LET today_d == _today(prefs, now)
        hit == ManualIndex(hw_metrics, today_d)
        cur == IF hit = {} THEN NaN ELSE hw_metrics[SetMin(hit)].water_ml
        new_total == (IF cur = NaN THEN 0 ELSE cur) + water_amt
        tbl == UpsertManual(hw_metrics, today_d,
                            [ts |-> now, water_ml |-> new_total])
    IN /\ Len(tbl) + Len(hw_meals) <= cap
       /\ new_total <= MaxWaterMl
       /\ hw_metrics' = tbl
       /\ dash' = NoDash
       /\ UNCHANGED <<conv, tzr, gen, bdg, log, hw_events, rq, now, prefs, hw_meals, hw_badges, last_meal, ctx, twin, bot>>

\* pages/06c_Log_Nutrition.py, "Save Raw" and "Parse with AI": one meal
\* text saved with no totals, or with the totals the estimator returned
SaveMeal(txt, parsed, meal_type, cap) ==
    /\ txt # <<>>
    /\ Len(hw_metrics) + Len(hw_meals) < cap
    /\ hw_meals' = Append(hw_meals, save_meal_row(txt, parsed, now, meal_type))
    /\ last_meal' = [saved |-> TRUE, raw_text |-> txt, totals |-> parsed.totals]
    /\ dash' = NoDash
    /\ UNCHANGED <<conv, tzr, gen, bdg, log, hw_events, rq, now, prefs, hw_metrics, hw_badges, ctx, twin, bot>>

\* pages/05_Dashboard.py: one run of the page, top to bottom.  The trends
\* tab comes before the badges tab, so when it raises nothing after it runs.
DashboardRun(days_back) ==
    LET metrics_df == load_metrics(hw_metrics, prefs, now, days_back)
        meals_df == load_meals(hw_meals, prefs, now, days_back)
        hits == goal_hits_by_day(metrics_df, prefs)
        earned == Earned(hits)
    IN IF DailyRaises(metrics_df, meals_df)
       THEN /\ dash' = [NoDash EXCEPT !.status = "KeyError",
                                      !.metrics_df = metrics_df,
                                      !.meals_df = meals_df]
            /\ UNCHANGED <<conv, tzr, gen, bdg, log, hw_events, rq, now, prefs, hw_metrics, hw_meals, hw_badges, last_meal, ctx, twin, bot>>
       ELSE /\ dash' = [status |-> "ok",
                        metrics_df |-> metrics_df,
                        meals_df |-> meals_df,
                        daily |-> DailyFrame(metrics_df, meals_df),
                        hits |-> hits,
                        streak_any |-> current_streak(Column(hits, "any_hit")),
                        earned |-> earned]
            /\ hw_badges' = UpsertBadges(hw_badges, earned, now)
            /\ UNCHANGED <<conv, tzr, gen, bdg, log, hw_events, rq, now, prefs, hw_metrics, hw_meals, last_meal, ctx, twin, bot>>

\* what a call of the retriever leaves: its result, or the exception of
\* the first outside call that raised
Returned(c, err, out) ==
    [c EXCEPT !.pc = IF err = "" THEN "done" ELSE "raised",
              !.err = err,
              !.out = IF err = "" THEN out ELSE <<>>]

\* services/memory.py: one call of retrieve_health_context; the services
\* in down are unavailable, the three similarity searches return the
\* candidate lists A, B and C
RetrieveHealthContext(k, down, A, B, C) ==
    /\ ctx.pc = "idle"
    /\ ctx' = Returned([NoCtx EXCEPT !.fn = "retrieve_health_context",
                                     !.k = k, !.down = down,
                                     !.A = A, !.B = B, !.C = C],
                       RaisedIn(HealthCalls, down),
                       retrieve_health_context(A, B, C, k))
    /\ UNCHANGED <<conv, tzr, gen, bdg, log, hw_events, rq, now, prefs, hw_metrics, hw_meals, hw_badges, dash,
                   last_meal, twin, bot>>

\* services/memory.py: one call of retrieve_context; the similarity search
\* returns A, the table hw_chat_history holds store
RetrieveContext(k, down, A, store) ==
    /\ ctx.pc = "idle"
    /\ ctx' = Returned([NoCtx EXCEPT !.fn = "retrieve_context",
                                     !.k = k, !.down = down,
                                     !.A = A, !.store = store],
                       RaisedIn(ContextCalls(A), down),
                       retrieve_context(A, store, k))
    /\ UNCHANGED <<conv, tzr, gen, bdg, log, hw_events, rq, now, prefs, hw_metrics, hw_meals, hw_badges, dash,
                   last_meal, twin, bot>>

\* the summary found or built, the row update_user_summary upserted, and
\* the text returned when step 4 did not raise
Composed(c, summ, upserted) ==
    [c EXCEPT !.summ = summ,
              !.upserted = upserted,
              !.text = IF c.pc = "done"
                       THEN personal_context_text(summ, c.out) ELSE <<>>]

\* services/memory.py: one call of personal_context; the tables hold the
\* summaries s1 and s2, the model answers llm to the summary prompt
PersonalContext(down, s1, s2, llm, A, store) ==
    /\ ctx.pc = "idle"
    /\ ctx' = Composed(
                  Returned([NoCtx EXCEPT !.fn = "personal_context",
                                         !.k = 6, !.down = down,
                                         !.A = A, !.store = store],
                           RaisedIn(ContextCalls(A), down),
                           retrieve_context(A, store, 6)),
                  PersonalSummary(down, s1, s2,
                                  update_user_summary(down, store, llm)),
                  IF SummaryFrom("hw_user_summaries", down, s1) = <<>>
                     /\ SummaryFrom("hw_user_memory", down, s2) = <<>>
                  THEN update_user_summary(down, store, llm) ELSE <<>>)
    /\ UNCHANGED <<conv, tzr, gen, bdg, log, hw_events, rq, now, prefs, hw_metrics, hw_meals, hw_badges, dash,
                   last_meal, twin, bot>>

\* telegram_bot/bot.py: one text message handled by on_text
OnText(raw, linked, down, llm) ==
    /\ bot.pc = "idle"
    /\ bot' = [on_text(raw, linked, down, llm, hw_metrics, hw_meals, prefs, now)
                  EXCEPT !.raw = raw, !.linked = linked, !.down = down,
                         !.llm = llm]
    /\ UNCHANGED <<conv, tzr, gen, bdg, log, hw_events, rq, now, prefs, hw_metrics, hw_meals, hw_badges, dash,
                   last_meal, ctx, twin>>

Horizon == 180

\* the window averages with their defaults
TwinAverages(a) ==
    [kcal_avg |-> MeanOr(a.kcal_daily, 2000),
     steps_avg |-> MeanOr(a.steps_daily, 6000),
     water_avg |-> MeanOr(a.water_daily, 1200),
     sleep_avg |-> MeanOr(a.sleep_daily, 360),
     mood_avg |-> MeanOr(a.mood_daily, 3),
     stress_avg |-> MeanOr(a.stress_d, 3),
     anxiety_avg |-> MeanOr(a.anxiety_d, 3),
     focus_avg |-> MeanOr(a.focus_d, 3)]

TwinScored(t, avg) ==
    [t EXCEPT
       !.pc = "base",
       !.avg = avg,
       !.base_wellbeing = wellbeing_score(avg.mood_avg, avg.stress_avg,
                                          avg.anxiety_avg, avg.focus_avg),
       !.adherence = adherence_multiplier(avg.mood_avg, avg.stress_avg,
                                          avg.anxiety_avg, avg.focus_avg,
                                          avg.sleep_avg)]

\* tab_twin down to the sliders: the window averages, the wellbeing score
\* and the adherence multiplier
TwinScores ==
    /\ twin.pc = "inputs"
    /\ twin' = TwinScored(twin, TwinAverages(twin.input))
    /\ UNCHANGED <<conv, tzr, gen, bdg, log, hw_events, rq, now, prefs, hw_metrics, hw_meals, hw_badges, dash,
                   last_meal, ctx, bot>>

\* w0 = float(profile.get("weight_kg") or 75.0), then the last value
WeightBefore(s, profile) ==
    IF s.series = <<>> THEN FromInt(ValueOr(profile.weight_kg, 75))
    ELSE s.series[Len(s.series)]

\* series.append(w), with the locals of the turn
Appended(s, r) ==
    [tdee |-> r.tdee, intake |-> r.intake, series |-> Append(s.series, r.w)]

\* series_base = project_weight_series(profile, kcal_avg, steps_avg,
\* sleep_avg, water_avg, days=180, adherence=adherence): one turn of the loop
ProjectBaseDay ==
    /\ twin.pc = "base"
    /\ twin' = [twin EXCEPT
                  !.base = Appended(twin.base,
                      project_weight_series_day(
                          twin.input.profile, twin.avg.kcal_avg,
                          twin.avg.steps_avg, twin.avg.sleep_avg,
                          twin.avg.water_avg, 0, 0, 0, 0, twin.adherence,
                          WeightBefore(twin.base, twin.input.profile))),
                  !.pc = IF Len(twin.base.series) = Horizon
                         THEN "plan" ELSE "base"]
    /\ UNCHANGED <<conv, tzr, gen, bdg, log, hw_events, rq, now, prefs, hw_metrics, hw_meals, hw_badges, dash,
                   last_meal, ctx, bot>>

\* series_plan = project_weight_series(profile, kcal_avg,
\* steps_avg+delta_steps, sleep_avg+delta_sleep, water_avg+delta_water,
\* delta_intake=delta_kcal, days=180, adherence=adherence)
ProjectPlanDay ==
    /\ twin.pc = "plan"
    /\ twin' = [twin EXCEPT
                  !.plan = Appended(twin.plan,
                      project_weight_series_day(
                          twin.input.profile, twin.avg.kcal_avg,
                          FAdd(twin.avg.steps_avg,
                               FromInt(twin.input.delta_steps)),
                          FAdd(twin.avg.sleep_avg,
                               FromInt(twin.input.delta_sleep)),
                          FAdd(twin.avg.water_avg,
                               FromInt(twin.input.delta_water)),
                          0, 0, 0, twin.input.delta_kcal, twin.adherence,
                          WeightBefore(twin.plan, twin.input.profile))),
                  !.pc = IF Len(twin.plan.series) = Horizon
                         THEN "done" ELSE "plan"]
    /\ UNCHANGED <<conv, tzr, gen, bdg, log, hw_events, rq, now, prefs, hw_metrics, hw_meals, hw_badges, dash,
                   last_meal, ctx, bot>>

----------------------------------------------------------------------------
(* Spec: a few days of logging on the web pages, and the dashboard *)


PrefsSet == {[tz |-> "", daily_step_goal |-> 10000,
              daily_water_ml |-> NaN, sleep_goal_min |-> NaN],
             [tz |-> "Asia/Dhaka", daily_step_goal |-> NaN,
              daily_water_ml |-> NaN, sleep_goal_min |-> NaN]}
StepValues == {9000, 11000, 12000}
WaterAmounts == {1000}
Texts == {<<"2 eggs, toast">>}
ParsedMeals == {[totals |-> NoTotals],
                [totals |-> [calories |-> JNum(3500), protein_g |-> JNum(200)]]}

Init ==
    /\ now = SetMin(SlotHours)
    /\ prefs \in PrefsSet
    /\ hw_metrics = <<>>
    /\ hw_meals = <<>>
    /\ hw_badges = NoBadges
    /\ dash = NoDash
    /\ last_meal = NoMeal
    /\ ctx = NoCtx
    /\ twin = NoTwin
    /\ bot = NoBot
    /\ conv = NoConv
    /\ tzr = NoTzr
    /\ gen = NoGen
    /\ bdg = NoBdg
    /\ log = NoLog
    /\ hw_events = NoEvents
    /\ rq = NoRq

Next ==
    \/ Tick(SlotHours, (LastDay + 1) * HoursPerDay - 1)
    \/ \E s \in StepValues : SavePhysical(s, 0, MaxRows)
    \/ \E t \in Texts, p \in ParsedMeals : SaveMeal(t, p, "lunch", MaxRows)
    \/ DashboardRun(DaysBackDefault)

Spec == Init /\ [][Next]_vars

----------------------------------------------------------------------------
(* SpecStreak: water logged once a day or not at all over StreakDays + 1    *)
(* days, and the dashboard with a short or the default window               *)

EveningOnly == {SetMax(SlotHours)}
DaysBackMin == 7

InitStreak ==
    /\ now = SetMax(SlotHours)
    /\ prefs = [tz |-> "", daily_step_goal |-> NaN,
                daily_water_ml |-> NaN, sleep_goal_min |-> NaN]
    /\ hw_metrics = <<>>
    /\ hw_meals = <<>>
    /\ hw_badges = NoBadges
    /\ dash = NoDash
    /\ last_meal = NoMeal
    /\ ctx = NoCtx
    /\ twin = NoTwin
    /\ bot = NoBot
    /\ conv = NoConv
    /\ tzr = NoTzr
    /\ gen = NoGen
    /\ bdg = NoBdg
    /\ log = NoLog
    /\ hw_events = NoEvents
    /\ rq = NoRq

NextStreak ==
    \/ Tick(EveningOnly, (StreakDays + 1) * HoursPerDay - 1)
    \/ \E a \in {DefaultWaterGoal \div 2, DefaultWaterGoal} :
           SaveWaterLog(a, StreakDays + 1)
    \/ \E b \in {DaysBackMin, DaysBackDefault} : DashboardRun(b)

SpecStreak == InitStreak /\ [][NextStreak]_vars

----------------------------------------------------------------------------
(* SpecMeal: meals saved with every kind of total, and read back *)

RawTexts == Texts \cup {<<" ", "oats", "\n">>}

Totals(calories, protein_g) ==
    [totals |-> [calories |-> calories, protein_g |-> protein_g]]

ParsedTotals ==
    ParsedMeals \cup
    {Totals(JNum(3505), JNumStr(125)), Totals(JNum(3515), JNull),
     Totals(JNum(3496), JBadStr), Totals(JAbsent, JNum(0)),
     Totals(JNumStr(3504), JAbsent)}

InitMeal ==
    /\ now = SetMin(SlotHours)
    /\ prefs = [tz |-> "", daily_step_goal |-> NaN,
                daily_water_ml |-> NaN, sleep_goal_min |-> NaN]
    /\ hw_metrics = <<>>
    /\ hw_meals = <<>>
    /\ hw_badges = NoBadges
    /\ dash = NoDash
    /\ last_meal = NoMeal
    /\ ctx = NoCtx
    /\ twin = NoTwin
    /\ bot = NoBot
    /\ conv = NoConv
    /\ tzr = NoTzr
    /\ gen = NoGen
    /\ bdg = NoBdg
    /\ log = NoLog
    /\ hw_events = NoEvents
    /\ rq = NoRq

NextMeal ==
    \/ Tick(SlotHours, HoursPerDay - 1)
    \/ \E t \in RawTexts, p \in ParsedTotals, mt \in {"breakfast", "snacks"} :
           SaveMeal(t, p, mt, MaxRows - 1)
    \/ SavePhysical(SetMin(StepValues), 0, MaxRows - 1)
    \/ DashboardRun(DaysBackDefault)

SpecMeal == InitMeal /\ [][NextMeal]_vars

----------------------------------------------------------------------------
(* SpecCtx: retrieve_health_context over the candidate lists the three     *)
(* similarity searches can return                                          *)

MaxCand == 2
KValues == 1..(MaxCand + 1)

Cand(src, similarity, ts, created_at) ==
    [src |-> src, similarity |-> similarity, ts |-> ts,
     created_at |-> created_at]

ChatRows == {Cand("chat", 90, 7, NaN), Cand("chat", 90, 5, NaN),
             Cand("chat", 50, 9, NaN)}
JournalRows == {Cand("journal", 90, NaN, 6), Cand("journal", NaN, NaN, 8)}
MealRows == {Cand("meal", 50, 9, NaN), Cand("meal", 70, NaN, NaN)}

SeqsUpTo(S, n) == UNION {[1..m -> S] : m \in 0..n}

InitCtx ==
    /\ now = SetMin(SlotHours)
    /\ prefs = [tz |-> "", daily_step_goal |-> NaN,
                daily_water_ml |-> NaN, sleep_goal_min |-> NaN]
    /\ hw_metrics = <<>>
    /\ hw_meals = <<>>
    /\ hw_badges = NoBadges
    /\ dash = NoDash
    /\ last_meal = NoMeal
    /\ ctx = NoCtx
    /\ twin = NoTwin
    /\ bot = NoBot
    /\ conv = NoConv
    /\ tzr = NoTzr
    /\ gen = NoGen
    /\ bdg = NoBdg
    /\ log = NoLog
    /\ hw_events = NoEvents
    /\ rq = NoRq

\* the rows of hw_chat_history, in insertion order
ChatStores == {<<>>, <<Cand("chat", NaN, 7, NaN), Cand("chat", NaN, 5, NaN),
                      Cand("chat", NaN, 9, NaN)>>}

Searches == {"match_user_history", "match_journal", "match_meals"}

\* the services that are down during a call
DownSets == {{}, {"embed_text"}, {"hw_chat_history"},
             {"match_user_history", "hw_chat_history"}}
            \cup {{x} : x \in Searches}

\* a search that is down returns nothing, another one up to n of its rows
ListsOf(name, rows, n, down) ==
    IF name \in down THEN {<<>>} ELSE SeqsUpTo(rows, n)

\* texts: a short one, one with blank ends, a long one
LongNoteLen == 2500
Chars(n, c) == [i \in 1..n |-> c]
ShortText == <<"o", "k">>
Notes == {<<>>, ShortText, <<" ", "h", "i", "\n">>, Chars(LongNoteLen, "x")}

\* a chat row with its text
Note(similarity, ts, text) ==
    [src |-> "chat", similarity |-> similarity, ts |-> ts,
     created_at |-> NaN, text |-> text]

PersonalDown == {{}, {"embed_text"}, {"hw_user_summaries"},
                 {"hw_user_memory", "chat_text"}}

NextCtx ==
    \/ \E down \in PersonalDown, s1 \in {<<>>, ShortText},
          s2 \in {<<>>, <<"m", "e", "m">>}, llm \in {<<>>, <<"n", "e", "w">>} :
           \E t1 \in Notes, t2 \in Notes, searched \in BOOLEAN :
               PersonalContext(down, s1, s2, llm,
                               IF searched THEN <<Note(80, 3, t1)>> ELSE <<>>,
                               <<Note(NaN, 1, t2), Note(NaN, 2, t1)>>)
    \/ \E k \in KValues, down \in DownSets :
           \E A \in ListsOf("match_user_history", ChatRows, MaxCand, down),
              B \in ListsOf("match_journal", JournalRows, MaxCand - 1, down),
              C \in ListsOf("match_meals", MealRows, MaxCand - 1, down) :
               RetrieveHealthContext(k, down, A, B, C)
    \/ \E k \in KValues, down \in DownSets, store \in ChatStores :
           \E A \in ListsOf("match_user_history", ChatRows, MaxCand, down) :
               RetrieveContext(k, down, A, store)

SpecCtx == InitCtx /\ [][NextCtx]_vars

----------------------------------------------------------------------------
(* SpecMind and SpecTwin: the digital-twin tab.  SpecMind draws the mental  *)
(* averages and the sleep average from a grid and computes the scores;     *)
(* SpecTwin runs the two projections for a few profiles.                   *)

Profile(age, height_cm, weight_kg, gender, activity_level) ==
    [age |-> age, height_cm |-> height_cm, weight_kg |-> weight_kg,
     gender |-> gender, activity_level |-> activity_level]

TwinInput(profile, kcal_daily, steps_daily, water_daily, sleep_daily, mental, deltas) ==
    [profile |-> profile, kcal_daily |-> kcal_daily,
     steps_daily |-> steps_daily, water_daily |-> water_daily,
     sleep_daily |-> sleep_daily,
     mood_daily |-> mental[1], stress_d |-> mental[2],
     anxiety_d |-> mental[3], focus_d |-> mental[4],
     delta_steps |-> deltas[1], delta_sleep |-> deltas[2],
     delta_water |-> deltas[3], delta_kcal |-> deltas[4]]

TwinAt(input) ==
    [pc |-> "inputs", input |-> input,
     avg |-> [kcal_avg |-> FZero, steps_avg |-> FZero, water_avg |-> FZero,
              sleep_avg |-> FZero, mood_avg |-> FZero, stress_avg |-> FZero,
              anxiety_avg |-> FZero, focus_avg |-> FZero],
     base_wellbeing |-> FZero, adherence |-> FZero,
     base |-> NoSeries, plan |-> NoSeries]

ScenarioProfile == Profile(30, 170, 75, "female", "Sedentary")
SliderDefaults == <<2000, 30, 400, 0 - 150>>
SlidersAtZero == <<0, 0, 0, 0>>

\* a column with the value v on each of n days
Daily(v, n) == [i \in 1..n |-> v]

\* no mental value on any of the n days of the frame
NoMental(n) == <<Daily(NaN, n), Daily(NaN, n), Daily(NaN, n), Daily(NaN, n)>>

\* the frame is empty: every daily series is
EmptyWindow ==
    TwinInput(ScenarioProfile, <<>>, <<>>, <<>>, <<>>,
              <<<<>>, <<>>, <<>>, <<>>>>, SliderDefaults)

\* two days of records: daily values whose mean is 1.0, 3.5 and 5.0, and no
\* value on either day
MentalSeries == {<<NaN, NaN>>, <<1, NaN>>, <<3, 4>>, <<5, 5>>}
SleepSeries == {<<300, NaN>>, <<420, 420>>}

\* two days of records with 0 steps, 0 ml of water and 0 minutes of sleep
\* (the least values of the inputs of Log Physical)
ZeroCases ==
    {TwinInput(ScenarioProfile, k, <<0, 0>>, <<0, NaN>>, sl,
               <<<<3, 3>>, <<3, 3>>, <<3, 3>>, <<3, 3>>>>, SliderDefaults) :
        k \in {<<2000, 2000>>, <<NaN, NaN>>}, sl \in {<<0, 0>>, <<420, 420>>}}

MindCases ==
    {TwinInput(ScenarioProfile, <<2000, 2000>>, <<6000, NaN>>, <<2000, 2000>>,
               sl, <<m, s, a, f>>, SliderDefaults) :
        sl \in SleepSeries, m \in MentalSeries, s \in MentalSeries,
        a \in MentalSeries, f \in MentalSeries}
    \cup ZeroCases \cup {EmptyWindow}

TwinCases ==
    {TwinInput(ScenarioProfile, <<2000>>, <<6000>>, <<2000>>, <<420>>,
               NoMental(1), SliderDefaults),
     TwinInput(Profile(18, 150, 50, "", "Sedentary"),
               <<1500, 1520, 1530, 1533, 1534>>, Daily(6000, 5),
               Daily(2000, 5), Daily(420, 5), NoMental(5), SlidersAtZero),
     TwinInput(Profile(NaN, NaN, NaN, "Male", "Very active"),
               <<3500, 3700>>, <<9000, NaN>>, <<800, 800>>, <<NaN, 400>>,
               <<<<4, 4>>, <<2, NaN>>, <<2, 2>>, <<4, 4>>>>,
               <<250, 15, 100, 600>>),
     TwinInput(Profile(30, 170, 36, "female", "Athlete"),
               <<1000>>, <<6000>>, <<2000>>, <<420>>,
               NoMental(1), SliderDefaults),
     TwinInput(ScenarioProfile, <<NaN>>, <<6000>>, <<2000>>, <<420>>,
               NoMental(1), SliderDefaults)}

InitMind ==
    /\ now = SetMin(SlotHours)
    /\ prefs = [tz |-> "", daily_step_goal |-> NaN,
                daily_water_ml |-> NaN, sleep_goal_min |-> NaN]
    /\ hw_metrics = <<>>
    /\ hw_meals = <<>>
    /\ hw_badges = NoBadges
    /\ dash = NoDash
    /\ last_meal = NoMeal
    /\ ctx = NoCtx
    /\ \E c \in MindCases : twin = TwinAt(c)
    /\ bot = NoBot
    /\ conv = NoConv
    /\ tzr = NoTzr
    /\ gen = NoGen
    /\ bdg = NoBdg
    /\ log = NoLog
    /\ hw_events = NoEvents
    /\ rq = NoRq

NextMind == TwinScores

SpecMind == InitMind /\ [][NextMind]_vars

InitTwin ==
    /\ now = SetMin(SlotHours)
    /\ prefs = [tz |-> "", daily_step_goal |-> NaN,
                daily_water_ml |-> NaN, sleep_goal_min |-> NaN]
    /\ hw_metrics = <<>>
    /\ hw_meals = <<>>
    /\ hw_badges = NoBadges
    /\ dash = NoDash
    /\ last_meal = NoMeal
    /\ ctx = NoCtx
    /\ \E c \in TwinCases : twin = TwinAt(c)
    /\ bot = NoBot
    /\ conv = NoConv
    /\ tzr = NoTzr
    /\ gen = NoGen
    /\ bdg = NoBdg
    /\ log = NoLog
    /\ hw_events = NoEvents
    /\ rq = NoRq

NextTwin ==
    \/ TwinScores
    \/ ProjectBaseDay
    \/ ProjectPlanDay

SpecTwin == InitTwin /\ [][NextTwin]_vars

----------------------------------------------------------------------------
(* SpecBot: metrics and meals logged on the site, then one text message to  *)
(* the bot                                                                  *)

TxtSteps == <<"S", "t", "e", "p", "s", "?">>
TxtStepCount == <<"m", "y", " ", "s", "t", "e", "p", " ", " ", "c", "o", "u", "n", "t">>
TxtFootsteps == <<"f", "o", "o", "t", "s", "t", "e", "p", "s">>
TxtSleepHr == <<"s", "l", "e", "e", "p", " ", "a", "n", "d", " ", "H", "R">>
TxtChr == <<"c", "h", "r">>
TxtMood == <<"M", "o", "o", "d">>
TxtAte == <<"W", "h", "a", "t", " ", "d", "i", "d", " ", "I", " ", "e", "a", "t">>
TxtAteNoGap == <<"w", "h", "a", "t", "d", "i", "d", " ", "i", " ", "e", "a", "t">>
TxtTodaysMeals == <<"t", "o", "d", "a", "y", "s", " ", "m", "e", "a", "l", "s">>
TxtHello == <<" ", "h", "e", "l", "l", "o", " ">>
TxtBlank == <<" ", " ">>
TxtFitness == <<"f", "i", "t", "n", "e", "s", "s">>
BotTexts == {TxtSteps, TxtStepCount, TxtFootsteps, TxtSleepHr, TxtChr, TxtMood,
             TxtAte, TxtAteNoGap, TxtTodaysMeals, TxtHello, TxtBlank,
             TxtFitness}

LlmOutcomes == {LlmRaises, LlmNone, LlmSays(<<>>), LlmSays(<<" ", "\n">>),
                LlmSays(<<" ", "W", "a", "l", "k", ".", "\n">>)}

BotDown == {{}, {"hw_metrics"}, {"hw_meals"}, {"hw_chat", "embed_text"},
            {"profiles"}}

\* a linked user with any outcome of the outside calls, and a user who has
\* not linked a profile
BotCases == {<<TRUE, down, llm>> : down \in BotDown, llm \in LlmOutcomes}
            \cup {<<FALSE, {}, LlmNone>>}

InitBot ==
    /\ now = SetMin(SlotHours)
    /\ prefs = [tz |-> "", daily_step_goal |-> NaN,
                daily_water_ml |-> NaN, sleep_goal_min |-> NaN]
    /\ hw_metrics = <<>>
    /\ hw_meals = <<>>
    /\ hw_badges = NoBadges
    /\ dash = NoDash
    /\ last_meal = NoMeal
    /\ ctx = NoCtx
    /\ twin = NoTwin
    /\ bot = NoBot
    /\ conv = NoConv
    /\ tzr = NoTzr
    /\ gen = NoGen
    /\ bdg = NoBdg
    /\ log = NoLog
    /\ hw_events = NoEvents
    /\ rq = NoRq

NextBot ==
    \/ /\ bot.pc = "idle"
       /\ Tick(EveningOnly, 2 * HoursPerDay - 1)
    \/ /\ bot.pc = "idle"
       /\ SavePhysical(SetMin(StepValues), 0, 1)
    \/ /\ bot.pc = "idle"
       /\ \E t \in Texts : SaveMeal(t, [totals |-> NoTotals], "lunch", 2)
    \/ \E raw \in BotTexts, c \in BotCases : OnText(raw, c[1], c[2], c[3])

SpecBot == InitBot /\ [][NextBot]_vars

----------------------------------------------------------------------------
(* SpecRetry: calls of exec_with_retry on three pages, the outcome of each *)
(* execution of the request chosen by the datastore.                       *)

\* exec_with_retry is called with a request, the session being stored
ExecCall(page, signout_ok) ==
    /\ rq.pc = "idle"
    /\ rq' = [NoRq EXCEPT !.pc = "loop", !.page = page,
                          !.signout_ok = signout_ok]
    /\ UNCHANGED <<conv, tzr, gen, bdg, log, hw_events, now, prefs, hw_metrics, hw_meals, hw_badges, dash,
                   last_meal, ctx, twin, bot>>

\* req.execute() ends with outcome o
Execute(o) ==
    /\ rq.pc \in {"loop", "last"}
    /\ rq' = exec_with_retry([rq EXCEPT !.outs = Append(rq.outs, o)], o)
    /\ UNCHANGED <<conv, tzr, gen, bdg, log, hw_events, now, prefs, hw_metrics, hw_meals, hw_badges, dash,
                   last_meal, ctx, twin, bot>>

InitRetry ==
    /\ now = SetMin(SlotHours)
    /\ prefs = [tz |-> "", daily_step_goal |-> NaN,
                daily_water_ml |-> NaN, sleep_goal_min |-> NaN]
    /\ hw_metrics = <<>>
    /\ hw_meals = <<>>
    /\ hw_badges = NoBadges
    /\ dash = NoDash
    /\ last_meal = NoMeal
    /\ ctx = NoCtx
    /\ twin = NoTwin
    /\ bot = NoBot
    /\ conv = NoConv
    /\ tzr = NoTzr
    /\ gen = NoGen
    /\ bdg = NoBdg
    /\ log = NoLog
    /\ hw_events = NoEvents
    /\ rq = NoRq

NextRetry ==
    \/ \E page \in Pages, signout_ok \in BOOLEAN : ExecCall(page, signout_ok)
    \/ \E o \in Outcomes : Execute(o)

SpecRetry == InitRetry /\ [][NextRetry]_vars

----------------------------------------------------------------------------
(* SpecLog: the three logging pages on two local days, the water form in   *)
(* up to two tabs, the datastore failing now and then.  A submission      *)
(* ends within the hour in which it began.                                 *)

MaxWaterLogs == 2
\* texts sent on to on_text while a conversation waits without a handler
MaxPassed == 2

\* pages/06a_Log_Physical.py, "Save Physical", the upsert working or not
LogPhysical(steps, sleep_min, up) ==
    LET d == _today(prefs, now)
        payload == [ts |-> now, steps |-> steps, sleep_minutes |-> sleep_min]
    IN /\ hw_metrics' = SaveManual(hw_metrics, d, payload, up)
       /\ log' = LoggedSave(log, hw_metrics, d, payload, up, now)
       /\ UNCHANGED <<conv, tzr, gen, bdg, now, prefs, hw_meals, hw_badges, dash, last_meal, ctx,
                      twin, bot, rq, hw_events>>

\* pages/06b_Log_Mental.py, "Save Mental", the upsert working or not
LogMental(mood, up) ==
    LET d == _today(prefs, now)
        payload == [ts |-> now, mood |-> mood]
    IN /\ hw_metrics' = SaveManual(hw_metrics, d, payload, up)
       /\ log' = LoggedSave(log, hw_metrics, d, payload, up, now)
       /\ UNCHANGED <<conv, tzr, gen, bdg, now, prefs, hw_meals, hw_badges, dash, last_meal, ctx,
                      twin, bot, rq, hw_events>>

\* pages/06c_Log_Nutrition.py, "Save Water Log" down to step 1: the time of
\* the log (the chosen local time, else now) and today's total read
WaterRead(s, water_amt, water_time) ==
    LET today_d == _today(prefs, now)
        hit == ManualIndex(hw_metrics, today_d)
    IN /\ log.w[s].pc = "idle"
       /\ log.started < MaxWaterLogs
       /\ log' = [log EXCEPT
                    !.started = log.started + 1,
                    !.w[s] = [pc |-> "read", water_amt |-> water_amt,
                              when |-> IF water_time = NaN THEN now
                                       ELSE _to_utc_from_local_time(
                                                water_time, prefs, now),
                              today_d |-> today_d,
                              cur |-> IF hit = {} THEN NaN
                                      ELSE hw_metrics[SetMin(hit)].water_ml]]
       /\ UNCHANGED <<conv, tzr, gen, bdg, now, prefs, hw_metrics, hw_meals, hw_badges, dash,
                      last_meal, ctx, twin, bot, rq, hw_events>>

\* "Save Water Log", steps 2 and 3: the row upserted with the new total,
\* then the event appended; an error ends the submission where it is
WaterWrite(s, up, ev) ==
    LET w == log.w[s]
        new_total == (IF w.cur = NaN THEN 0 ELSE w.cur) + w.water_amt
        payload == [ts |-> w.when, water_ml |-> new_total]
        noted == Noted(log.last, w.today_d, payload, now)
    IN /\ w.pc = "read"
       /\ hw_metrics' = IF up = "ok"
                        THEN UpsertManual(hw_metrics, w.today_d, payload)
                        ELSE hw_metrics
       /\ hw_events' = IF up = "ok" /\ ev = "ok"
                       THEN Append(hw_events, [ts |-> w.when,
                                               water_ml |-> w.water_amt])
                       ELSE hw_events
       /\ log' = [log EXCEPT
                    !.w[s] = NoWater,
                    !.partial = log.partial \/ (up = "ok" /\ ev # "ok"),
                    !.last =
                        IF up # "ok" THEN log.last
                        ELSE IF ev # "ok" THEN noted
                        ELSE [noted EXCEPT ![w.today_d].submitted =
                                               @ + w.water_amt]]
       /\ UNCHANGED <<conv, tzr, gen, bdg, now, prefs, hw_meals, hw_badges, dash, last_meal, ctx,
                      twin, bot, rq>>

LogSteps == {SetMin(StepValues), SetMax(StepValues)}
LogMoods == {4}
\* the amount in the form of each tab
LogAmount(s) == 250 * s
\* no time chosen, or 23:00, later than every hour at which the user acts
LogTimes == {NaN, HoursPerDay - 1}
Ups == {"ok", "raises"}

InitLog ==
    /\ now = SetMin(SlotHours)
    /\ prefs \in PrefsSet
    /\ hw_metrics = <<>>
    /\ hw_meals = <<>>
    /\ hw_badges = NoBadges
    /\ dash = NoDash
    /\ last_meal = NoMeal
    /\ ctx = NoCtx
    /\ twin = NoTwin
    /\ bot = NoBot
    /\ conv = NoConv
    /\ tzr = NoTzr
    /\ gen = NoGen
    /\ bdg = NoBdg
    /\ rq = NoRq
    /\ hw_events = NoEvents
    /\ log = NoLog

NextLog ==
    \/ /\ \A s \in Sessions : log.w[s].pc = "idle"
       /\ Tick(SlotHours, HoursPerDay - 1)
    \/ \E steps \in LogSteps, up \in Ups : LogPhysical(steps, 0, up)
    \/ \E mood \in LogMoods, up \in Ups : LogMental(mood, up)
    \/ \E s \in Sessions, t \in LogTimes : WaterRead(s, LogAmount(s), t)
    \/ \E s \in Sessions, up \in Ups, ev \in Ups : WaterWrite(s, up, ev)

SpecLog == InitLog /\ [][NextLog]_vars

----------------------------------------------------------------------------
(* SpecEffects: the side effects of a dashboard run and of a bot message   *)
(* with failing rules, failing badge upserts and a failing chat log, for   *)
(* a user who saves the physical form every day.                           *)

\* pages/05_Dashboard.py: a run of the page that reaches the badges; the
\* rules in raising raise, the upserts of the codes in failing fail
DashboardRunFaulty(days_back, raising, failing) ==
    LET metrics_df == load_metrics(hw_metrics, prefs, now, days_back)
        meals_df == load_meals(hw_meals, prefs, now, days_back)
        hits == goal_hits_by_day(metrics_df, prefs)
        earned == evaluate_badges(hits, raising)
    IN /\ bdg.pc = "idle"
       /\ ~DailyRaises(metrics_df, meals_df)
       /\ dash' = [status |-> "ok",
                   metrics_df |-> metrics_df,
                   meals_df |-> meals_df,
                   daily |-> DailyFrame(metrics_df, meals_df),
                   hits |-> hits,
                   streak_any |-> current_streak(Column(hits, "any_hit")),
                   earned |-> earned]
       /\ bdg' = [pc |-> "returned", raising |-> raising, failing |-> failing,
                  hits |-> hits, earned |-> earned, attempted |-> earned]
       /\ hw_badges' = UpsertBadgesTried(hw_badges, earned, failing, now)
       /\ UNCHANGED <<conv, tzr, gen, now, prefs, hw_metrics, hw_meals, last_meal, ctx, twin,
                      bot, rq, hw_events, log>>

Faults == {{}, {"WATER_7D"}, {"STEPS_10K"}, {"WATER_7D", "STEPS_10K", "SLEEP_7x"}}
ChatDown == {{"hw_chat"}, {"embed_text"}, {"hw_chat", "embed_text"}}

InitEffects ==
    /\ now = SetMax(SlotHours)
    /\ prefs = [tz |-> "", daily_step_goal |-> NaN,
                daily_water_ml |-> NaN, sleep_goal_min |-> NaN]
    /\ hw_metrics = <<>>
    /\ hw_meals = <<>>
    /\ hw_badges = NoBadges
    /\ dash = NoDash
    /\ last_meal = NoMeal
    /\ ctx = NoCtx
    /\ twin = NoTwin
    /\ bot = NoBot
    /\ conv = NoConv
    /\ tzr = NoTzr
    /\ gen = NoGen
    /\ rq = NoRq
    /\ hw_events = NoEvents
    /\ log = NoLog
    /\ bdg = NoBdg

NextEffects ==
    \/ /\ ManualIndex(hw_metrics, _today(prefs, now)) # {}
       /\ Tick(EveningOnly, (SleepBadgeDays + 1) * HoursPerDay - 1)
    \/ SavePhysical(SetMax(StepValues), DefaultSleepGoal, SleepBadgeDays + 1)
    \/ \E raising \in Faults, failing \in Faults :
           DashboardRunFaulty(DaysBackDefault, raising, failing)
    \/ \E raw \in {TxtSteps, TxtHello}, down \in ChatDown :
           \E llm \in {LlmRaises, LlmSays(<<"W", "a", "l", "k", ".">>)} :
               OnText(raw, TRUE, down, llm)

SpecEffects == InitEffects /\ [][NextEffects]_vars

----------------------------------------------------------------------------
(* SpecChat: calls of chat_text, the completion answering or failing *)

\* services/llm_openai.py: one call of chat_text; first and second are what
\* the completion does at its first and at its second call
ChatText(key, first, second) ==
    /\ gen.pc = "idle"
    /\ gen' = [pc |-> "done", key |-> key, first |-> first, second |-> second,
               calls |-> chat_text_run(key, first, second).calls,
               left |-> chat_text_run(key, first, second).left,
               value |-> chat_text_run(key, first, second).value]
    /\ UNCHANGED <<conv, tzr, now, prefs, hw_metrics, hw_meals, hw_badges, dash,
                   last_meal, ctx, twin, bot, rq, hw_events, log, bdg>>

Completions == LlmOutcomes \cup {LlmUnsupported, LlmSays(<<"O", "k">>), LlmSays(<<"H", "i", " ">>)}

InitChat ==
    /\ now = SetMin(SlotHours)
    /\ prefs = [tz |-> "", daily_step_goal |-> NaN,
                daily_water_ml |-> NaN, sleep_goal_min |-> NaN]
    /\ hw_metrics = <<>>
    /\ hw_meals = <<>>
    /\ hw_badges = NoBadges
    /\ dash = NoDash
    /\ last_meal = NoMeal
    /\ ctx = NoCtx
    /\ twin = NoTwin
    /\ bot = NoBot
    /\ conv = NoConv
    /\ tzr = NoTzr
    /\ rq = NoRq
    /\ hw_events = NoEvents
    /\ log = NoLog
    /\ bdg = NoBdg
    /\ gen = NoGen

NextChat ==
    \E key \in BOOLEAN, first \in Completions, second \in Completions :
        ChatText(key, first, second)

SpecChat == InitChat /\ [][NextChat]_vars

----------------------------------------------------------------------------
(* SpecTz: calls of the dashboard's _user_tz and of the bot's               *)
(* user_timezone.  The datastore chooses what the preferences hold and how *)
(* each execution of the lookup ends.                                      *)

\* what hw_preferences holds for the user: no row, a row whose tz is null,
\* or a row with a text in tz
TzData == {[kind |-> "norow", tz |-> ""], [kind |-> "null", tz |-> ""]}
          \cup {[kind |-> "str", tz |-> z] :
                    z \in {"", "Asia/Dhaka", "UTC", "Mars/Olympus"}}

\* (r.data or {}).get("tz"), "" standing for nothing to use; nothing is
\* read when the lookup raised
TzRead(data, ok) == IF ok /\ data.kind = "str" THEN data.tz ELSE ""

\* 05_Dashboard._user_tz is called: the lookup goes through exec_with_retry
UserTzCall(data, signout_ok) ==
    /\ tzr.pc = "idle" /\ rq.pc = "idle"
    /\ tzr' = [NoTzr EXCEPT !.pc = "lookup", !.caller = "05_Dashboard",
                            !.data = data]
    /\ rq' = [NoRq EXCEPT !.pc = "loop", !.page = "05_Dashboard",
                          !.signout_ok = signout_ok]
    /\ UNCHANGED <<conv, gen, bdg, log, hw_events, now, prefs, hw_metrics, hw_meals, hw_badges, dash,
                   last_meal, ctx, twin, bot>>

\* one execution of the lookup inside exec_with_retry
UserTzExecute(o) ==
    /\ tzr.pc = "lookup" /\ rq.pc \in {"loop", "last"}
    /\ rq' = exec_with_retry([rq EXCEPT !.outs = Append(rq.outs, o)], o)
    /\ UNCHANGED <<conv, tzr, gen, bdg, log, hw_events, now, prefs, hw_metrics, hw_meals, hw_badges, dash,
                   last_meal, ctx, twin, bot>>

\* exec_with_retry is left: "except Exception" takes what it raised, the
\* script's stop passes through it, and ZoneInfo is tried on the result
UserTzReturn ==
    /\ tzr.pc = "lookup" /\ rq.pc = "done"
    /\ tzr' = IF rq.left = "stopped"
              THEN [tzr EXCEPT !.pc = "done", !.left = "stopped"]
              ELSE [tzr EXCEPT !.pc = "done", !.left = "returned",
                        !.zone = _user_tz([tz |-> TzRead(tzr.data,
                                               rq.left = "returned")])]
    /\ UNCHANGED <<conv, rq, gen, bdg, log, hw_events, now, prefs, hw_metrics, hw_meals, hw_badges, dash,
                   last_meal, ctx, twin, bot>>

\* bot.user_timezone: one execution of the lookup, any exception passed
\* over, then ZoneInfo tried on the result
user_timezone(data, o) ==
    /\ tzr.pc = "idle" /\ rq.pc = "idle"
    /\ tzr' = [NoTzr EXCEPT !.pc = "done", !.caller = "bot", !.data = data,
                            !.outs = <<o>>, !.left = "returned",
                            !.zone = _user_tz([tz |-> TzRead(data, o = "ok")])]
    /\ UNCHANGED <<conv, rq, gen, bdg, log, hw_events, now, prefs, hw_metrics, hw_meals, hw_badges, dash,
                   last_meal, ctx, twin, bot>>

\* the caller goes on; the next call starts afresh
TzDone ==
    /\ tzr.pc = "done"
    /\ tzr' = NoTzr
    /\ rq' = NoRq
    /\ UNCHANGED <<conv, gen, bdg, log, hw_events, now, prefs, hw_metrics, hw_meals, hw_badges, dash,
                   last_meal, ctx, twin, bot>>

InitTz ==
    /\ now = SetMin(SlotHours)
    /\ prefs = [tz |-> "", daily_step_goal |-> NaN,
                daily_water_ml |-> NaN, sleep_goal_min |-> NaN]
    /\ hw_metrics = <<>>
    /\ hw_meals = <<>>
    /\ hw_badges = NoBadges
    /\ dash = NoDash
    /\ last_meal = NoMeal
    /\ ctx = NoCtx
    /\ twin = NoTwin
    /\ bot = NoBot
    /\ conv = NoConv
    /\ tzr = NoTzr
    /\ gen = NoGen
    /\ bdg = NoBdg
    /\ log = NoLog
    /\ hw_events = NoEvents
    /\ rq = NoRq

NextTz ==
    \/ \E data \in TzData, signout_ok \in BOOLEAN : UserTzCall(data, signout_ok)
    \/ \E o \in Outcomes : UserTzExecute(o)
    \/ UserTzReturn
    \/ \E data \in TzData, o \in Outcomes : user_timezone(data, o)
    \/ TzDone

SpecTz == InitTz /\ [][NextTz]_vars

----------------------------------------------------------------------------
(* SpecCheckin: one chat sends /checkin, texts and /cancel to the bot.     *)

\* /checkin outside a conversation: checkin_start
checkin_start(linked) ==
    /\ conv.state = ConversationEnd
    /\ conv' = IF linked
               THEN [NoConv EXCEPT !.linked = TRUE, !.state = "ASK_BREAKFAST"]
               ELSE [NoConv EXCEPT !.state = ReplyMessage]
    /\ UNCHANGED <<tzr, gen, bdg, log, hw_events, rq, now, prefs, hw_metrics, hw_meals, hw_badges, dash,
                   last_meal, ctx, twin, bot>>

\* a text in a state with a MessageHandler: its callback runs
ConvText(text) ==
    /\ conv.state \in RegisteredStates
    /\ LET r == AskCallback(StateCallback[conv.state], text)
       IN conv' = [conv EXCEPT !.data = Append(conv.data, r[1]),
                               !.answered = conv.answered + 1,
                               !.state = r[2]]
    /\ UNCHANGED <<tzr, gen, bdg, log, hw_events, rq, now, prefs, hw_metrics, hw_meals, hw_badges, dash,
                   last_meal, ctx, twin, bot>>

\* a text in a state without a MessageHandler: the conversation keeps its
\* state and the text goes to on_text
ConvTextUnhandled(text) ==
    /\ conv.state \notin RegisteredStates \cup {ConversationEnd}
    /\ conv.passed < MaxPassed
    /\ conv' = [conv EXCEPT !.answered = conv.answered + 1,
                            !.passed = conv.passed + 1]
    /\ UNCHANGED <<tzr, gen, bdg, log, hw_events, rq, now, prefs, hw_metrics, hw_meals, hw_badges, dash,
                   last_meal, ctx, twin, bot>>

\* /cancel inside a conversation: the fallback returns END
ConvCancel ==
    /\ conv.state # ConversationEnd
    /\ conv' = NoConv
    /\ UNCHANGED <<tzr, gen, bdg, log, hw_events, rq, now, prefs, hw_metrics, hw_meals, hw_badges, dash,
                   last_meal, ctx, twin, bot>>

InitCheckin ==
    /\ now = SetMin(SlotHours)
    /\ prefs = [tz |-> "", daily_step_goal |-> NaN,
                daily_water_ml |-> NaN, sleep_goal_min |-> NaN]
    /\ hw_metrics = <<>>
    /\ hw_meals = <<>>
    /\ hw_badges = NoBadges
    /\ dash = NoDash
    /\ last_meal = NoMeal
    /\ ctx = NoCtx
    /\ twin = NoTwin
    /\ bot = NoBot
    /\ conv = NoConv
    /\ tzr = NoTzr
    /\ gen = NoGen
    /\ bdg = NoBdg
    /\ log = NoLog
    /\ hw_events = NoEvents
    /\ rq = NoRq

NextCheckin ==
    \/ \E linked \in BOOLEAN : checkin_start(linked)
    \/ \E text \in AnswerTexts : ConvText(text)
    \/ \E text \in AnswerTexts : ConvTextUnhandled(text)
    \/ ConvCancel

SpecCheckin == InitCheckin /\ [][NextCheckin]_vars

----------------------------------------------------------------------------
(* Claims about the daily aggregate, the streak and the badges *)

DaysWithRecords == DaysOf(dash.metrics_df) \cup DaysOf(dash.meals_df)
DailyOf(d) == {i \in DOMAIN dash.daily : dash.daily[i].date = d}
StepsOfDay(d) == {r.steps : r \in Range(RowsOfDay(dash.metrics_df, d))} \ {NaN}
CaloriesOfDay(d) == SumSkipNa("calories", RowsOfDay(dash.meals_df, d))

\* C1: after every run of the dashboard, each day that has a metric or a
\* meal record in the window has one row of the daily aggregate, whose steps
\* are the largest steps value of that day's metric records and whose
\* calories are the sum of that day's meal records' calories.
C1_DailyAggregate ==
    dash.status # "none" =>
        \A d \in DaysWithRecords :
            /\ Cardinality(DailyOf(d)) = 1
            /\ \A i \in DailyOf(d) :
                /\ StepsOfDay(d) # {} => dash.daily[i].steps = SetMax(StepsOfDay(d))
                /\ d \in DaysOf(dash.meals_df) =>
                       dash.daily[i].calories = CaloriesOfDay(d)

\* C1, where the page does build the aggregate
C1_DailyAggregateWhenBuilt ==
    dash.status = "ok" =>
        \A d \in DaysWithRecords :
            /\ Cardinality(DailyOf(d)) = 1
            /\ \A i \in DailyOf(d) :
                /\ StepsOfDay(d) # {} => dash.daily[i].steps = SetMax(StepsOfDay(d))
                /\ StepsOfDay(d) = {} => dash.daily[i].steps = NaN
                /\ d \in DaysOf(dash.meals_df) =>
                       dash.daily[i].calories = CaloriesOfDay(d)

\* C10: the daily aggregate groups by the calendar day in the zone of the
\* stored preferences: two metric records of the window fall into the same
\* row of the aggregate exactly when they are on the same local day.
C10_GroupsByLocalDay ==
    dash.status = "ok" =>
        \A i, j \in DOMAIN dash.metrics_df :
            LET r1 == dash.metrics_df[i]
                r2 == dash.metrics_df[j]
                tz == _user_tz(prefs)
            IN (LocalDate(r1.ts, tz) = LocalDate(r2.ts, tz))
                   <=> (DailyOf(GroupDay(r1)) = DailyOf(GroupDay(r2)))

AnyHits == Column(dash.hits, "any_hit")

\* C2: the streak is the length of the trailing run of any_hit: the last
\* streak_any days are hits and the day before them, if there is one, is a
\* miss (so it is 0 when the latest day is a miss); with steps
\* <<12000, 9000, 11000>>, a step goal of 10000 and no water or sleep hit,
\* steps_hit is <<TRUE, FALSE, TRUE>> and the streak is 1.
C2_CurrentStreak ==
    dash.status = "ok" =>
        LET n == dash.streak_any
            len == Len(AnyHits)
        IN /\ n \in 0..len
           /\ \A i \in (len - n + 1)..len : AnyHits[i]
           /\ n < len => ~AnyHits[len - n]
           /\ (/\ Column(dash.hits, "steps") = <<12000, 9000, 11000>>
               /\ GoalOr(prefs.daily_step_goal, DefaultStepGoal) = 10000
               /\ \A i \in DOMAIN dash.hits :
                      ~dash.hits[i].water_hit /\ ~dash.hits[i].sleep_hit)
              => /\ Column(dash.hits, "steps_hit") = <<TRUE, FALSE, TRUE>>
                 /\ n = 1

C2_Witness ==
    /\ dash.status = "ok"
    /\ Column(dash.hits, "steps") = <<12000, 9000, 11000>>
    /\ prefs.daily_step_goal = 10000
    /\ AnyHits = <<TRUE, FALSE, TRUE>>
    /\ dash.streak_any = 1

WaterHits == Column(dash.hits, "water_hit")

\* C3: WATER_7D is earned only when at least 7 days are present and every
\* one of the last 7 present days hit the water goal.
C3_Water7dNeedsAllSeven ==
    (dash.status = "ok" /\ "WATER_7D" \in Range(dash.earned)) =>
        /\ Len(WaterHits) >= 7
        /\ \A i \in (Len(WaterHits) - 6)..Len(WaterHits) : WaterHits[i]

\* six of the last seven present days hit the goal and the badge is not earned
C3_Witness ==
    /\ dash.status = "ok"
    /\ Len(WaterHits) >= 7
    /\ CountTrue(Tail7(WaterHits)) = 6
    /\ "WATER_7D" \notin Range(dash.earned)

C3_WitnessEarned ==
    /\ dash.status = "ok"
    /\ "WATER_7D" \in Range(dash.earned)
    /\ "WATER_7D" \in DOMAIN hw_badges

----------------------------------------------------------------------------
(* Claims about the digital twin *)

Scored == twin.pc \in {"base", "plan", "done"}

\* C4: the adherence multiplier lies in [0.88, 1.08] for every combination
\* of mood, stress, anxiety, focus and average sleep.
C4_AdherenceInRange ==
    Scored => /\ FGe(twin.adherence, FromDec(88, 100))
              /\ FLe(twin.adherence, FromDec(108, 100))

\* the product of the factors is below 0.88 and the multiplier is 0.88
C4_Witness ==
    /\ Scored
    /\ FLt(AdherenceTerm(twin.avg.mood_avg, twin.avg.stress_avg,
                         twin.avg.anxiety_avg, twin.avg.focus_avg,
                         twin.avg.sleep_avg),
           FromDec(88, 100))
    /\ twin.adherence = FromDec(88, 100)

\* values of [1, 5] that a mental average is compared with
MentalGrid == {MeanOr(s, 3) : s \in MentalSeries \cup {<<2, 3>>, <<4, 5>>}}

\* the four mental averages lie in [1, 5]
InOneToFive ==
    \A v \in {twin.avg.mood_avg, twin.avg.stress_avg, twin.avg.anxiety_avg,
              twin.avg.focus_avg} : FGe(v, FromInt(1)) /\ FLe(v, FromInt(5))

\* C5: the wellbeing score does not fall when mood or focus rises, does not
\* rise when stress or anxiety rises, the other three inputs held fixed, and
\* for inputs in [1, 5] it lies in [0, 100].
C5_WellbeingMonotone ==
    Scored =>
        /\ InOneToFive => /\ FGe(twin.base_wellbeing, FZero)
                          /\ FLe(twin.base_wellbeing, FromInt(100))
        /\ \A v \in MentalGrid :
            /\ FGe(v, twin.avg.mood_avg) =>
                  ~FLt(wellbeing_score(v, twin.avg.stress_avg,
                                       twin.avg.anxiety_avg,
                                       twin.avg.focus_avg),
                       twin.base_wellbeing)
            /\ FGe(v, twin.avg.focus_avg) =>
                  ~FLt(wellbeing_score(twin.avg.mood_avg, twin.avg.stress_avg,
                                       twin.avg.anxiety_avg, v),
                       twin.base_wellbeing)
            /\ FGe(v, twin.avg.stress_avg) =>
                  ~FGt(wellbeing_score(twin.avg.mood_avg, v,
                                       twin.avg.anxiety_avg,
                                       twin.avg.focus_avg),
                       twin.base_wellbeing)
            /\ FGe(v, twin.avg.anxiety_avg) =>
                  ~FGt(wellbeing_score(twin.avg.mood_avg, twin.avg.stress_avg,
                                       v, twin.avg.focus_avg),
                       twin.base_wellbeing)

\* the best inputs score 100, and a higher stress scores strictly less
C5_Witness ==
    /\ Scored
    /\ twin.avg.mood_avg = FromInt(5) /\ twin.avg.focus_avg = FromInt(5)
    /\ twin.avg.stress_avg = FromInt(1) /\ twin.avg.anxiety_avg = FromInt(1)
    /\ twin.base_wellbeing = FromInt(100)
    /\ FLt(wellbeing_score(FromInt(5), FromInt(5), FromInt(1), FromInt(5)),
           twin.base_wellbeing)

Rising(s) ==
    \A i \in 2..Len(s.series) : FGt(s.series[i], s.series[i - 1])
NeverFalling(s) ==
    \A i \in 2..Len(s.series) : FGe(s.series[i], s.series[i - 1])

\* intake (plus the intake delta) exceeds the estimated TDEE and the
\* adherence is positive
Surplus(s) ==
    /\ s.series # <<>>
    /\ FGt(s.intake, s.tdee)
    /\ FGt(twin.adherence, FZero)

IsScenario ==
    /\ twin.input.profile = ScenarioProfile
    /\ twin.avg.kcal_avg = FromInt(2000)
    /\ twin.avg.steps_avg = FromInt(6000)
    /\ twin.avg.sleep_avg = FromInt(420)
    /\ twin.avg.water_avg = FromInt(2000)

\* TDEE 1801.8, and the weight after 180 days above the starting 75 kg
ScenarioRises ==
    (IsScenario /\ twin.base.series # <<>>) =>
        /\ twin.base.tdee = FromDec(18018, 10)
        /\ Len(twin.base.series) = Horizon + 1 =>
               FGt(twin.base.series[Horizon + 1], FromInt(75))

\* C8 as stated: whenever intake (plus the intake delta) exceeds the TDEE
\* and adherence is positive the projected series is strictly increasing day
\* over day; and the scenario has TDEE 1801.8 and a weight after 180 days
\* above 75 kg.
C8_StrictlyIncreasing ==
    Scored => /\ \A s \in {twin.base, twin.plan} : Surplus(s) => Rising(s)
              /\ ScenarioRises

\* a surplus of 1 kcal a day or more, at weights below 10^9 kg
ClearSurplus(s) ==
    /\ FGe(FSub(s.intake, s.tdee), FromInt(1))
    /\ \A i \in DOMAIN s.series : FLt(s.series[i], FromInt(10^9))

\* C8, amended: whenever intake (plus the intake delta) exceeds the TDEE and
\* adherence is positive the projected series never falls day over day, and
\* it is strictly increasing when the surplus is at least 1 kcal a day (at
\* weights below 10^9 kg); the scenario has TDEE 1801.8 and a weight after
\* 180 days above 75 kg.
C8_NeverFalling ==
    Scored => /\ \A s \in {twin.base, twin.plan} :
                    Surplus(s) => /\ NeverFalling(s)
                                  /\ ClearSurplus(s) => Rising(s)
              /\ ScenarioRises

\* the scenario, projected to the end
C8_Witness ==
    /\ twin.pc = "done"
    /\ IsScenario
    /\ Surplus(twin.base)
    /\ Rising(twin.base)
    /\ Len(twin.base.series) = Horizon + 1
    /\ FGt(twin.base.series[Horizon + 1], FromInt(75))

----------------------------------------------------------------------------
(* Claims about the context retriever and the meal store *)

Candidates == ctx.A \o ctx.B \o ctx.C
Count(s, r) == Cardinality({i \in DOMAIN s : s[i] = r})

TotalKeys == {"calories", "protein_g"}
IsNumeric(v) == v.t \in {"num", "numstr"}
Dist(a, b) == IF a < b THEN b - a ELSE a - b

\* the last saved meal has been read back by the dashboard's loader
ReadBack ==
    /\ last_meal.saved
    /\ dash.status # "none"
    /\ dash.meals_df # <<>>
    /\ Len(dash.meals_df) = Len(hw_meals)

----------------------------------------------------------------------------
(* The streak and calendar gaps *)

\* the rows of hits from index i on are on consecutive calendar days
Consecutive(hits, i) ==
    \A j \in (i + 1)..Len(hits) : hits[j].day = hits[j - 1].day + 1

\* C11: the streak scan stops at a calendar day that is absent from the
\* aggregate sequence: when a day with no records lies just before row i and
\* the rows from i on are consecutive days that all have any_hit, the streak
\* counts exactly the rows from i on.
C11_GapBreaksStreak ==
    dash.status = "ok" =>
        \A i \in 2..Len(dash.hits) :
            ( /\ dash.hits[i].day > dash.hits[i - 1].day + 1
              /\ Consecutive(dash.hits, i)
              /\ \A j \in i..Len(dash.hits) : dash.hits[j].any_hit )
            => dash.streak_any = Len(dash.hits) - i + 1

----------------------------------------------------------------------------
(* The badge store *)

\* C12: badge award is idempotent: the store holds one row per (uid, code),
\* a later evaluation does not change the earned_on date of a badge that is
\* already earned, and no badge is ever removed.
C12_BadgeIdempotent ==
    [][\A c \in DOMAIN hw_badges :
           c \in DOMAIN hw_badges' /\ hw_badges'[c] = hw_badges[c]]_vars

\* the part of C12 the store keeps: an earned badge is never removed
C12_NeverRevoked ==
    [][DOMAIN hw_badges \subseteq DOMAIN hw_badges']_vars

----------------------------------------------------------------------------
(* The shape of the projected series, and the window averages *)

\* C13: project_weight_series with horizon N returns N + 1 values (181 for
\* the 180 days of the page), and every value of the baseline and of the
\* planned series is at least 35 kg.
C13_LengthAndFloor ==
    /\ \A s \in {twin.base, twin.plan} :
           /\ Len(s.series) <= Horizon + 1
           /\ \A i \in DOMAIN s.series : FGe(s.series[i], FromInt(35))
    /\ twin.pc \in {"plan", "done"} => Len(twin.base.series) = Horizon + 1
    /\ twin.pc = "done" => /\ Len(twin.plan.series) = Horizon + 1
                           /\ Horizon + 1 = 181

\* both series returned, and the floor held a falling series at 35 kg
C13_Witness ==
    /\ twin.pc = "done"
    /\ FGt(twin.base.series[1], FromInt(35))
    /\ FLt(twin.base.intake, twin.base.tdee)
    /\ twin.base.series[Horizon + 1] = FromInt(35)
    /\ twin.plan.series[Horizon + 1] = FromInt(35)

\* the daily series behind each average, its average and its default
AverageFields ==
    {<<"kcal_daily", "kcal_avg", 2000>>, <<"steps_daily", "steps_avg", 6000>>,
     <<"water_daily", "water_avg", 1200>>, <<"sleep_daily", "sleep_avg", 360>>,
     <<"mood_daily", "mood_avg", 3>>, <<"stress_d", "stress_avg", 3>>,
     <<"anxiety_d", "anxiety_avg", 3>>, <<"focus_d", "focus_avg", 3>>}

\* no day of the series carries a value, or every value carried is 0
ZeroOrUndefined(daily) == \A i \in DOMAIN daily : daily[i] \in {NaN, 0}

\* C14: each window average fed to the projection is its fixed default
\* (2000, 6000, 1200, 360, 3.0, 3.0, 3.0, 3.0) whenever the average computed
\* from the window is zero or undefined, also when the window has records
\* but none carries the field.
C14_AverageDefaults ==
    Scored =>
        \A f \in AverageFields :
            ZeroOrUndefined(twin.input[f[1]]) => twin.avg[f[2]] = FromInt(f[3])

\* the part of C14 the page keeps: the defaults of a window without records
C14_DefaultsOfEmptyWindow ==
    Scored =>
        \A f \in AverageFields :
            twin.input[f[1]] = <<>> => twin.avg[f[2]] = FromInt(f[3])

----------------------------------------------------------------------------
(* The merged context *)

\* C15: the merged context returned by retrieve_health_context holds no
\* duplicates: an item returned by more than one search, or twice by one,
\* appears at most once in the result.
C15_NoDuplicates ==
    ctx.pc = "done" /\ ctx.fn = "retrieve_health_context" =>
        \A i, j \in DOMAIN ctx.out : i # j => ctx.out[i] # ctx.out[j]

----------------------------------------------------------------------------
(* The retriever and services that are down *)

\* C16: context retrieval never raises to its caller: when the embedding
\* call or a similarity search or a datastore call fails, the retriever
\* returns a partial or empty result.
C16_NeverRaises == ctx.pc # "raised"

\* the rows of the journal and of the meal store, in insertion order
JournalStore == <<Cand("journal", NaN, NaN, 6), Cand("journal", NaN, NaN, 8)>>
MealStore == <<Cand("meal", NaN, 9, NaN), Cand("meal", NaN, 4, NaN)>>

\* the rows a store contributes: those of its similarity search, or its k
\* most recent rows when the search is down
OrRecent(name, data, store) ==
    IF name \in ctx.down THEN MostRecent(store, ctx.k) ELSE data

\* C17: when the similarity search of a store errors, retrieval falls back
\* for that store to its k most recent items by timestamp, for the chat, the
\* journal and the meal store independently of the other two.
C17_RecencyFallback ==
    ( /\ ctx.pc # "idle"
      /\ ctx.down # {}
      /\ ctx.down \subseteq Searches )
    => /\ ctx.pc = "done"
       /\ ctx.fn = "retrieve_context" => ctx.out = MostRecent(ctx.store, ctx.k)
       /\ ctx.fn = "retrieve_health_context" =>
              ctx.out = retrieve_health_context(
                            OrRecent("match_user_history", ctx.A, ctx.store),
                            OrRecent("match_journal", ctx.B, JournalStore),
                            OrRecent("match_meals", ctx.C, MealStore), ctx.k)

\* what retrieve_context keeps of C17: with every service up and a search
\* that returns no row, the k most recent chat rows
C17_FallbackOnEmptySearch ==
    ( /\ ctx.pc # "idle" /\ ctx.fn = "retrieve_context"
      /\ ctx.down = {} /\ ctx.A = <<>> )
    => ctx.pc = "done" /\ ctx.out = MostRecent(ctx.store, ctx.k)

\* C18: the string returned by personal_context is bounded by a fixed
\* character budget (about 2000 characters), whatever the length of the
\* stored summary and of the retrieved notes.
C18_TextBudget ==
    ctx.fn = "personal_context" /\ ctx.pc = "done" => Len(ctx.text) <= 2000

----------------------------------------------------------------------------
(* Claims about the bot's text handler *)

\* msg is content without the white space at its two ends
TrimOf(msg, content) ==
    /\ msg # <<>>
    /\ ~IsSpace(msg[1]) /\ ~IsSpace(msg[Len(msg)])
    /\ \E i \in 0..Len(content) :
           /\ i + Len(msg) <= Len(content)
           /\ SubSeq(content, i + 1, i + Len(msg)) = msg
           /\ \A q \in DOMAIN content :
                  (q <= i \/ q > i + Len(msg)) => IsSpace(content[q])

\* the generation returned nothing: no content, or white space only
EmptyGeneration ==
    /\ bot.llm.outcome \in {"none", "text"}
    /\ \A q \in DOMAIN bot.llm.content : IsSpace(bot.llm.content[q])

\* C19: on the generation path of on_text the reply sent to the user is
\* never empty: it is the generated text without the white space at its
\* ends when that is not empty, "I'm here for you." when the generation
\* returns empty, and the fixed apology when the generation raises.
C19_ReplyNeverEmpty ==
    bot.generations > 0 =>
        /\ Len(bot.replies) = 1
        /\ bot.replies[1].kind = "generated"
        /\ bot.replies[1].msg # <<>>
        /\ bot.llm.outcome = "raises" => bot.replies[1].msg = CouldNotGenerate
        /\ EmptyGeneration => bot.replies[1].msg = ImHereForYou
        /\ (bot.llm.outcome = "text" /\ ~EmptyGeneration) =>
               TrimOf(bot.replies[1].msg, bot.llm.content)

\* a generated text with white space at both ends was sent trimmed
C19_Witness ==
    /\ bot.generations = 1
    /\ bot.llm.outcome = "text"
    /\ bot.llm.content # <<>>
    /\ IsSpace(bot.llm.content[1])
    /\ bot.replies = <<Generated(<<"W", "a", "l", "k", ".">>)>>
    /\ bot.hw_chat # <<>>
    /\ bot.hw_chat[Len(bot.hw_chat)].role = "assistant"

\* the text reached the intents: the profile is linked and the text is not
\* empty
Handled == bot.pc = "done" /\ bot.linked /\ bot.text # <<>>

\* texts that ask for steps, sleep, heart rate, fitness, mood or meals, and
\* texts that do not
QuickTexts == {TxtSteps, TxtStepCount, TxtSleepHr, TxtMood, TxtAte,
               TxtTodaysMeals, TxtFitness}
ChatTexts == {TxtFootsteps, TxtChr, TxtAteNoGap, TxtHello}

MatchesQuick(text) ==
    \E i \in DOMAIN QuickIntents : Search(QuickIntents[i].pat, text)

\* C20: when the text matches a quick-intent pattern, on_text answers from
\* the metrics snapshot or the meal records and the generation is not
\* invoked for that message; it is invoked only when no pattern matches.
C20_QuickIntentSkipsGeneration ==
    Handled =>
        /\ MatchesQuick(bot.text) <=> bot.raw \in QuickTexts
        /\ bot.raw \in QuickTexts =>
               /\ bot.generations = 0
               /\ Len(bot.replies) = 1
               /\ bot.replies[1].kind \in
                      {"steps", "sleep", "hr", "physical", "mental", "meals",
                       "no_meals"}
               /\ bot.replies[1].kind \notin {"meals", "no_meals"} =>
                      bot.replies[1].source = "snapshot"
               /\ bot.replies[1].kind = "meals" =>
                      Range(bot.replies[1].shown) \subseteq Range(hw_meals)
        /\ bot.raw \in ChatTexts =>
               bot.generations = 1 /\ bot.replies[1].kind = "generated"
        /\ bot.generations > 0 => ~MatchesQuick(bot.text)

\* "What did I eat" answered from yesterday's meal, without a generation
C20_Witness ==
    /\ Handled
    /\ bot.raw = TxtAte
    /\ bot.generations = 0
    /\ bot.replies = <<Answer("meals", "last 36h", hw_meals)>>
    /\ hw_meals # <<>>

\* C21: for a non-empty text of a linked user that on_text answers, the
\* chat history holds the user's message and then the reply that was sent,
\* whenever the table hw_chat accepts writes.
C21_BothLogged ==
    (Handled /\ bot.replies # <<>> /\ "hw_chat" \notin bot.down) =>
        /\ Len(bot.hw_chat) = 2
        /\ bot.hw_chat[1].role = "user" /\ bot.hw_chat[1].text = bot.text
        /\ bot.hw_chat[2].role = "assistant"
        /\ bot.replies[1].kind = "generated"
        /\ bot.hw_chat[2].text = bot.replies[1].msg

----------------------------------------------------------------------------
(* Claims about exec_with_retry *)

\* C22: exec_with_retry executes the request at most 3 times in all, sleeps
\* before every retry and longer each time, and an error that is neither
\* transient nor session-expired is raised at its first occurrence, the
\* request not being executed again.
C22_BoundedRetries ==
    /\ Len(rq.outs) <= Tries
    /\ rq.pc \in {"loop", "last"} => Len(rq.sleeps) = Len(rq.outs)
    /\ \A k \in DOMAIN rq.sleeps :
           k + 1 \in DOMAIN rq.sleeps => rq.sleeps[k] < rq.sleeps[k + 1]
    /\ \A k \in DOMAIN rq.outs :
           rq.outs[k] \in {"api", "other"} =>
               k = Len(rq.outs) /\ rq.left = "raised"
    /\ rq.pc = "done" => rq.left \in {"returned", "raised", "stopped"}

\* C23: an execution that fails with the session-expired condition is the
\* last one, the stored session is cleared and control has left
\* exec_with_retry, on whichever attempt it happens.
C23_SessionExpiredLeaves ==
    \A k \in DOMAIN rq.outs :
        rq.outs[k] = "expired" =>
            /\ k = Len(rq.outs)
            /\ rq.pc = "done" /\ rq.left \in {"stopped", "raised"}
            /\ ~rq.session

----------------------------------------------------------------------------
(* Claims about the day's manual row and the water log *)

ManualDays == {hw_metrics[i].log_date : i \in DOMAIN hw_metrics} \cup DOMAIN log.last
ManualRow(d) == hw_metrics[SetMin(ManualIndex(hw_metrics, d))]

C25_TimestampIsNow ==
    \A d \in DOMAIN log.last :
        ManualIndex(hw_metrics, d) # {} =>
            /\ ManualRow(d).ts = log.last[d].at
            /\ InWindow(ManualRow(d).ts,
                        _start_end_days(prefs, now + 1, DaysBackDefault))

\* C30: once every water submission has ended, all of them with success,
\* the water_ml of the day's manual row is the sum of the amounts
\* submitted that day and the sum of that day's water_logged events.
C30_WaterAccumulates ==
    ((\A s \in Sessions : log.w[s].pc = "idle") /\ ~log.partial) =>
        /\ \A d \in DOMAIN log.last :
               log.last[d].submitted > 0 =>
                   ManualRow(d).water_ml = log.last[d].submitted
        /\ _today(prefs, now) \in DOMAIN log.last =>
               TotalMl(TodayWaterEvents(hw_events, prefs, now)) =
                   log.last[_today(prefs, now)].submitted

----------------------------------------------------------------------------
(* Claims about the best-effort side effects *)

\* C26: a badge rule that raises and a badge upsert that fails do not stop
\* evaluate_badges: the other rules are evaluated, an upsert is tried for
\* every earned code and the earned list is returned to the page; a chat
\* log that cannot be written or embedded does not stop on_text from
\* sending its reply.
C26_BestEffort ==
    /\ bdg.pc = "returned" =>
           /\ bdg.earned =
                  SelectSeq(BadgeCodes,
                            LAMBDA c : /\ bdg.hits # <<>>
                                       /\ c \notin bdg.raising
                                       /\ RuleOf(c, bdg.hits))
           /\ bdg.attempted = bdg.earned
           /\ \A c \in Range(bdg.earned) \ bdg.failing : c \in DOMAIN hw_badges
           /\ dash.status = "ok" => dash.earned = bdg.earned
    /\ bot.pc # "raised"
    /\ Handled => Len(bot.replies) = 1

\* the first rule raised and the two after it were earned, the upsert of
\* the first earned badge failed and that of the second was done; a text was
\* answered while the chat log could not be written
C26_Witness ==
    /\ bdg.pc = "returned"
    /\ bdg.raising = {"WATER_7D"} /\ bdg.failing = {"STEPS_10K"}
    /\ bdg.earned = <<"STEPS_10K", "SLEEP_7x">>
    /\ DOMAIN hw_badges = {"SLEEP_7x"}
    /\ Handled /\ "hw_chat" \in bot.down /\ bot.hw_chat = <<>>
    /\ bot.replies # <<>>

----------------------------------------------------------------------------
(* Claims about chat_text *)

\* C27: when its first completion call fails with an unsupported-parameter
\* error chat_text calls once more, without the options, and returns what
\* that call gives; any other error, and any error of the second call, is
\* raised; so a call of chat_text makes at most two completion calls.
C27_RetryOnceWithoutOptions ==
    (gen.pc = "done" /\ gen.key) =>
        /\ Len(gen.calls) <= 2
        /\ Answered(gen.first) =>
               /\ gen.calls = <<"options">>
               /\ gen.left = "returned" /\ gen.value = Strip(gen.first.content)
        /\ gen.first.outcome = "raises" =>
               gen.calls = <<"options">> /\ gen.left = "raised"
        /\ gen.first.outcome = "unsupported" =>
               /\ gen.calls = <<"options", "plain">>
               /\ Answered(gen.second) =>
                      /\ gen.left = "returned"
                      /\ gen.value = Strip(gen.second.content)
               /\ ~Answered(gen.second) => gen.left = "raised"

\* the options refused, then a text returned without its outer white space
C27_Witness ==
    /\ gen.pc = "done" /\ gen.key
    /\ gen.first = LlmUnsupported
    /\ gen.second = LlmSays(<<" ", "W", "a", "l", "k", ".", "\n">>)
    /\ gen.calls = <<"options", "plain">>
    /\ gen.left = "returned"
    /\ gen.value = <<"W", "a", "l", "k", ".">>

\* the zone that the claim names: the stored one when the lookup came back
\* with a row whose tz is a zone known to zoneinfo, the default otherwise
TzExpected(data, ok) ==
    IF ok /\ data.kind = "str" /\ data.tz \in KnownZones THEN data.tz
    ELSE DefaultTz

\* the lookup of the finished call came back with a result
TzLookupOk ==
    IF tzr.caller = "bot" THEN tzr.outs = <<"ok">>
    ELSE rq.outs # <<>> /\ rq.outs[Len(rq.outs)] = "ok"

\* C28 as stated: every finished call of _user_tz / user_timezone returns
\* a zone, the stored one when the lookup succeeded and the stored zone is
\* valid, America/New_York in every other case.
C28_AlwaysReturnsZone ==
    tzr.pc = "done" =>
        /\ tzr.left = "returned"
        /\ tzr.zone = TzExpected(tzr.data, TzLookupOk)

\* C28, amended: a finished call returns the stored zone when the lookup
\* succeeded and the stored zone is valid, and America/New_York otherwise,
\* except that on a page whose lookup found the session expired the call
\* does not return: the script is stopped for the sign-in page.
C28_ZoneOrSignIn ==
    tzr.pc = "done" =>
        \/ /\ tzr.left = "returned"
           /\ tzr.zone = TzExpected(tzr.data, TzLookupOk)
        \/ /\ tzr.left = "stopped"
           /\ tzr.caller = "05_Dashboard"
           /\ rq.outs[Len(rq.outs)] = "expired"
           /\ Len(rq.outs) <= Tries

\* an invalid stored zone read by a successful lookup gives the default
C28_Witness ==
    /\ tzr.pc = "done" /\ tzr.left = "returned"
    /\ tzr.caller = "05_Dashboard"
    /\ tzr.data = [kind |-> "str", tz |-> "Mars/Olympus"]
    /\ TzLookupOk
    /\ tzr.zone = DefaultTz

\* C29: in the /checkin conversation of a linked user every state that a
\* callback returns has a registered handler, and once the user has
\* answered the ten prompts the answers have been saved with save_metrics
\* exactly once and the conversation has ended (the tenth callback saves
\* and ends at once).
C29_CheckinCompletes ==
    /\ conv.linked => conv.state \in RegisteredStates \cup {ConversationEnd}
    /\ (conv.linked /\ conv.answered = Len(AskStates)) =>
           (conv.saves = 1 /\ conv.state = ConversationEnd)

====
